---- MODULE Spec2Model ----
(***************************************************************************)
(* A model of the AI Portfolio Agent backend: the Pyth price service       *)
(* (src/pyth.py), the /portfolio/analyze valuation (src/main.py) and the   *)
(* recommendation rules (src/asi_alliance.py).                             *)
(*                                                                         *)
(* Conventions                                                             *)
(*  - a str is a tuple of ASCII codes, so that str.upper() is computed;    *)
(*  - a decimal.Decimal is a record [c, e] (coefficient, exponent) with    *)
(*    value c * 10^e; str(Decimal) keeps both, so "0" and "0.00" differ;   *)
(*  - a Python float of the recommendation rules is a fixed-point integer  *)
(*    in thousandths (0.7 is 700, 5.0 percent is 5000).                    *)
(***************************************************************************)
EXTENDS Integers, Sequences, FiniteSets, TLC

VARIABLES
    pc,         \* which operation is pending or done
    symbols,    \* get_token_prices: the requested symbol list
    upstream,   \* the Hermes endpoint's behaviour for this call
    now,        \* int(time.time())
    priceOut,   \* what get_token_prices returned
    payload,    \* one upstream payload handed to the decoder
    parsed,     \* what _parse_price / _parse_confidence returned for it
    graph,      \* what get_user_portfolio returns to analyze_portfolio
    response,   \* the response of POST /portfolio/analyze
    recIn,      \* the arguments of _generate_recommendation
    recOut,     \* the recommendation it returned
    insIn,      \* the arguments of generate_insight and the agent's behaviour
    insOut,     \* what generate_insight returned
    chainIn,    \* a PolygonConnector call: the Web3 handle's state and the arguments
    chainOut,   \* what the PolygonConnector call returned
    elapsed,    \* seconds wait_for_transaction has been waiting
    handles,    \* main.py's graph_fetcher, pyth_service, polygon_connector
    started,    \* how far startup_event has come
    svcIn,      \* the last /health or /test/all request
    svcOut,     \* the response of the last /health or /test/all request
    calls,      \* the outbound calls one /portfolio/analyze request has made so far
    frame       \* the locals of that request: what each call returned

\* The variables of the price, valuation and recommendation operations, and
\* those of the insight, chain and service operations.
earlierVars == <<symbols, upstream, now, priceOut, payload, parsed, graph,
                 response, recIn, recOut>>
laterVars == <<insIn, insOut, chainIn, chainOut, elapsed, handles, started, svcIn,
               svcOut, calls, frame>>

vars == <<pc, earlierVars, laterVars>>

\* The value of a variable that the running operation does not use.
Idle == [idle |-> TRUE]

EarlierIdle ==
    /\ symbols = Idle /\ upstream = Idle /\ now = Idle /\ priceOut = Idle
    /\ payload = Idle /\ parsed = Idle /\ graph = Idle /\ response = Idle
    /\ recIn = Idle /\ recOut = Idle

serviceVars == <<handles, started, svcIn, svcOut>>
requestVars == <<calls, frame>>

ServiceIdle == handles = Idle /\ started = Idle /\ svcIn = Idle /\ svcOut = Idle
RequestIdle == calls = Idle /\ frame = Idle

LaterIdle ==
    /\ insIn = Idle /\ insOut = Idle /\ chainIn = Idle /\ chainOut = Idle
    /\ elapsed = Idle /\ handles = Idle /\ started = Idle /\ svcIn = Idle
    /\ svcOut = Idle /\ RequestIdle

(***************************************************************************)
(* Bounds                                                                  *)
(***************************************************************************)
MaxSymbols == 2      \* longest requested symbol list
MaxPayloads == 2     \* longest list the upstream returns
MaxMantissa == 3     \* decoder inputs: mantissas 0..MaxMantissa (and negatives)
MaxExpo == 2         \* decoder inputs: exponents -MaxExpo..MaxExpo
MaxTokens == 2       \* longest token list of a portfolio
MaxAlloc == 70       \* current_allocation 0..MaxAlloc half percents
MaxSent == 20        \* sentiment_score 0..MaxSent twentieths

(***************************************************************************)
(* Strings                                                                 *)
(***************************************************************************)
ETH == <<69, 84, 72>>
BTC == <<66, 84, 67>>
MATIC == <<77, 65, 84, 73, 67>>
USDC == <<85, 83, 68, 67>>
USDT == <<85, 83, 68, 84>>
LINK == <<76, 73, 78, 75>>
UNI == <<85, 78, 73>>
AAVE == <<65, 65, 86, 69>>
XYZ == <<88, 89, 90>>           \* a symbol without a price feed

\* str.lower() on ASCII; used only to write the lower-case inputs.
Lower(s) == [i \in 1..Len(s) |-> IF s[i] \in 65..90 THEN s[i] + 32 ELSE s[i]]

\* str.upper() on ASCII.
Upper(s) == [i \in 1..Len(s) |-> IF s[i] \in 97..122 THEN s[i] - 32 ELSE s[i]]

(***************************************************************************)
(* decimal.Decimal                                                         *)
(***************************************************************************)
Dec(c, e) == [c |-> c, e |-> e]
Dec0 == Dec(0, 0)                                   \* Decimal(0), Decimal('0')

Min(a, b) == IF a <= b THEN a ELSE b
Abs(x) == IF x < 0 THEN -x ELSE x

\* The coefficient of d written at exponent e <= d.e.
Scaled(d, e) == d.c * 10 ^ (d.e - e)

\* Numerical equality and order of two Decimals.
DecEq(a, b) == Scaled(a, Min(a.e, b.e)) = Scaled(b, Min(a.e, b.e))
DecLt(a, b) == Scaled(a, Min(a.e, b.e)) < Scaled(b, Min(a.e, b.e))

\* Decimal(10) ** n: Decimal('100') for n = 2, Decimal('0.01') for n = -2.
DecPow10(n) == IF n >= 0 THEN Dec(10 ^ n, 0) ELSE Dec(1, n)

\* a * b and a + b (exact while the coefficient has at most 28 digits).
DecMul(a, b) == Dec(a.c * b.c, a.e + b.e)
DecAdd(a, b) == Dec(Scaled(a, Min(a.e, b.e)) + Scaled(b, Min(a.e, b.e)), Min(a.e, b.e))

(***************************************************************************)
(* PythPriceService (src/pyth.py)                                          *)
(***************************************************************************)
\* self.price_feed_ids: symbol -> feed identifier.
price_feed_ids ==
    (ETH :> "0xff61" @@ BTC :> "0xe62d" @@ MATIC :> "0x5de3" @@ USDC :> "0xeaa0" @@
     USDT :> "0x2b89" @@ LINK :> "0x8ac0" @@ UNI :> "0x78d1" @@ AAVE :> "0x2f95")

\* A JSON value read by int(): an integer, a value int() rejects, or no entry.
IntField(n) == [t |-> "int", v |-> n]
BadField == [t |-> "bad", v |-> 0]
NoField == [t |-> "absent", v |-> 0]

\* The "price" object of a payload; all three entries absent is {} (or no object).
PriceInfo(p, c, x) == [price |-> p, conf |-> c, expo |-> x]
NoPriceInfo == PriceInfo(NoField, NoField, NoField)

\* An element of the list the upstream returns: a parsed dict, or a raw VAA str.
DictPayload(info, pt) == [kind |-> "dict", price |-> info, publish_time |-> pt]
StrPayload == [kind |-> "str", price |-> NoPriceInfo, publish_time |-> NoField]

\* int(d.get(key, 0)): the integer, or an exception.
IntOf(f) ==
    CASE f.t = "int" -> [exc |-> FALSE, v |-> f.v]
      [] f.t = "absent" -> [exc |-> FALSE, v |-> 0]
      [] OTHER -> [exc |-> TRUE, v |-> 0]

\* _parse_price: Decimal(price) * Decimal(10) ** expo, Decimal(0) for a str,
\* for a payload without a price object and on any exception.
ParsePriceNoExpo(price_data) ==
    IF price_data.kind = "str" \/ price_data.price = NoPriceInfo THEN Dec0
    ELSE IF IntOf(price_data.price.price).exc \/ IntOf(price_data.price.expo).exc THEN Dec0
    ELSE Dec(IntOf(price_data.price.price).v, 0)
_parse_price(price_data) ==
    IF price_data.kind = "str" THEN Dec0
    ELSE IF price_data.price = NoPriceInfo THEN Dec0
    ELSE IF IntOf(price_data.price.price).exc \/ IntOf(price_data.price.expo).exc THEN Dec0
    ELSE DecMul(Dec(IntOf(price_data.price.price).v, 0),
                DecPow10(IntOf(price_data.price.expo).v))

\* _parse_confidence: Decimal(conf) * Decimal(10) ** expo, Decimal(0) on any
\* exception (a str has no .get).
_parse_confidence(price_data) ==
    IF price_data.kind = "str" THEN Dec0
    ELSE IF IntOf(price_data.price.conf).exc \/ IntOf(price_data.price.expo).exc THEN Dec0
    ELSE DecMul(Dec(IntOf(price_data.price.conf).v, 0),
                DecPow10(IntOf(price_data.price.expo).v))

\* A quote of the result mapping.
Quote(p, c, pt, src) == [price |-> p, confidence |-> c, publish_time |-> pt, source |-> src]

\* The mock_prices table of _get_mock_prices.
mock_prices ==
    (ETH :> [price |-> Dec(240050, -2), confidence |-> Dec(120, -2)] @@
     BTC :> [price |-> Dec(4350000, -2), confidence |-> Dec(5000, -2)] @@
     MATIC :> [price |-> Dec(85, -2), confidence |-> Dec(1, -2)] @@
     USDC :> [price |-> Dec(100, -2), confidence |-> Dec(1, -3)] @@
     USDT :> [price |-> Dec(100, -2), confidence |-> Dec(1, -3)] @@
     LINK :> [price |-> Dec(1575, -2), confidence |-> Dec(15, -2)] @@
     UNI :> [price |-> Dec(825, -2), confidence |-> Dec(8, -2)] @@
     AAVE :> [price |-> Dec(8550, -2), confidence |-> Dec(150, -2)])

\* The entry _get_mock_prices makes for one upper-cased symbol.
MockQuoteListedOnly(symbol_upper, t) ==
    IF symbol_upper \in DOMAIN mock_prices
    THEN Quote(mock_prices[symbol_upper].price, mock_prices[symbol_upper].confidence, t, "mock")
    ELSE Quote(Dec0, Dec0, t, "mock")
MockQuote(symbol_upper, t) ==
    IF symbol_upper \in DOMAIN mock_prices
    THEN Quote(mock_prices[symbol_upper].price, mock_prices[symbol_upper].confidence, t, "mock")
    ELSE Quote(Dec(100, -2), Dec(1, -2), t, "mock")

\* _get_mock_prices: one mock quote per upper-cased symbol of the list.
_get_mock_prices(syms, t) ==
    [k \in {Upper(syms[i]) : i \in 1..Len(syms)} |-> MockQuote(k, t)]

\* _get_mock_price: the mock quote of a single symbol.
_get_mock_price(symbol, t) == _get_mock_prices(<<symbol>>, t)[Upper(symbol)]

\* The behaviour of the Hermes endpoint during one call. first: "exc" (the
\* request raises), "ok_list" (200, a JSON list), "ok_obj" (200, a JSON
\* object), "bad_status"; alt is the alternative endpoint, asked after a bad
\* status: "exc", "bad_status", or "ok" with its "parsed" list.
Hermes(first, body, alt, parsedList) ==
    [first |-> first, body |-> body, alt |-> alt, parsed |-> parsedList]

\* _fetch_latest_prices: the list it returns and the requests it made.
_fetch_latest_prices(feed_ids, up) ==
    CASE up.first = "exc" -> [list |-> <<>>, requests |-> 1]
      [] up.first = "ok_list" -> [list |-> up.body, requests |-> 1]
      [] up.first = "ok_obj" -> [list |-> <<up.body[1]>>, requests |-> 1]
      [] OTHER -> [list |-> IF up.alt = "ok" THEN up.parsed ELSE <<>>, requests |-> 2]

\* The symbols of the list that have a feed identifier, upper-cased, in order.
ValidSymbols(syms) ==
    SelectSeq([i \in 1..Len(syms) |-> Upper(syms[i])], LAMBDA s : s \in DOMAIN price_feed_ids)

\* The "Process the response" loop from index i on: the mapping, or the
\* exception that price_data.get("publish_time", ...) raises on a str.
RECURSIVE ProcessResponse(_, _, _, _, _)
ProcessResponse(valid_symbols, latest_prices, i, prices, t) ==
    IF i > Len(valid_symbols) THEN [exc |-> FALSE, prices |-> prices]
    ELSE IF i <= Len(latest_prices)
    THEN IF latest_prices[i].kind = "str"
         THEN [exc |-> TRUE, prices |-> prices]
         ELSE ProcessResponse(valid_symbols, latest_prices, i + 1,
                (valid_symbols[i] :>
                    Quote(_parse_price(latest_prices[i]),
                          _parse_confidence(latest_prices[i]),
                          IF latest_prices[i].publish_time.t = "absent" THEN t
                          ELSE latest_prices[i].publish_time.v,
                          "pyth")) @@ prices, t)
    ELSE ProcessResponse(valid_symbols, latest_prices, i + 1,
            (valid_symbols[i] :> _get_mock_price(valid_symbols[i], t)) @@ prices, t)

\* "Add mock data for symbols without price feeds".
AddMissingNone(prices, syms, t) == prices
AddMissing(prices, syms, t) ==
    [k \in DOMAIN prices \cup {Upper(syms[i]) : i \in 1..Len(syms)} |->
        IF k \in DOMAIN prices THEN prices[k] ELSE _get_mock_price(k, t)]

\* The try block of get_token_prices: the mapping built, or the exception
\* raised inside it, the number of outbound requests made and the feed
\* identifiers they carried.
get_token_prices_body(syms, up, t) ==
    IF ValidSymbols(syms) = <<>>
    THEN [exc |-> FALSE, prices |-> _get_mock_prices(syms, t), requests |-> 0,
          feed_ids |-> <<>>]
    ELSE LET feed_ids == [i \in 1..Len(ValidSymbols(syms)) |-> price_feed_ids[ValidSymbols(syms)[i]]]
             fetched == _fetch_latest_prices(feed_ids, up)
             loop == ProcessResponse(ValidSymbols(syms), fetched.list, 1, <<>>, t)
         IN  [exc |-> loop.exc,
              prices |-> IF loop.exc THEN <<>> ELSE AddMissing(loop.prices, syms, t),
              requests |-> fetched.requests,
              feed_ids |-> feed_ids]

\* get_token_prices: the try block, and _get_mock_prices(symbols) when it raised.
get_token_prices(syms, up, t) ==
    LET body == get_token_prices_body(syms, up, t)
    IN  [raised |-> FALSE,
         prices |-> IF body.exc THEN _get_mock_prices(syms, t) ELSE body.prices,
         requests |-> body.requests,
         feed_ids |-> body.feed_ids]

(***************************************************************************)
(* Inputs of the price service                                             *)
(***************************************************************************)
SeqsUpTo(S, n) == UNION {[1..k -> S] : k \in 0..n}

SymbolSamples == {ETH, Lower(ETH), USDC, XYZ, Lower(XYZ)}

\* A decodable payload, one without publish_time, one without a price object,
\* one whose mantissa is not an integer, and a raw VAA string.
GoodPayload == DictPayload(PriceInfo(IntField(245012), IntField(150), IntField(-2)), IntField(1700))
GoodPayloadNoTime == DictPayload(PriceInfo(IntField(7), IntField(1), IntField(1)), NoField)
NoPricePayload == DictPayload(NoPriceInfo, IntField(1700))
BadMantissaPayload == DictPayload(PriceInfo(BadField, IntField(5), IntField(-2)), IntField(1700))
PayloadSamples == {GoodPayload, GoodPayloadNoTime, NoPricePayload, BadMantissaPayload, StrPayload}

HermesOutcomes(n) ==
    {Hermes("exc", <<>>, "none", <<>>)}
    \cup {Hermes("ok_list", l, "none", <<>>) : l \in SeqsUpTo(PayloadSamples, n)}
    \cup {Hermes("ok_obj", <<d>>, "none", <<>>) : d \in PayloadSamples \ {StrPayload}}
    \cup {Hermes("bad_status", <<>>, a, <<>>) : a \in {"exc", "bad_status"}}
    \cup {Hermes("bad_status", <<>>, "ok", l) : l \in SeqsUpTo(PayloadSamples, n)}

NowSamples == {1000, 1001}

(***************************************************************************)
(* The price service as a state machine: one call of get_token_prices     *)
(***************************************************************************)
InitPrices ==
    /\ pc = "prices_call"
    /\ symbols \in SeqsUpTo(SymbolSamples, MaxSymbols)
    /\ upstream \in HermesOutcomes(MaxPayloads)
    /\ now \in NowSamples
    /\ priceOut = Idle
    /\ payload = Idle /\ parsed = Idle /\ graph = Idle /\ response = Idle
    /\ recIn = Idle /\ recOut = Idle
    /\ LaterIdle

GetTokenPrices ==
    /\ pc = "prices_call"
    /\ priceOut' = get_token_prices(symbols, upstream, now)
    /\ pc' = "prices_done"
    /\ UNCHANGED <<symbols, upstream, now, payload, parsed, graph, response, recIn, recOut, laterVars>>

NextPrices == GetTokenPrices

SpecPrices == InitPrices /\ [][NextPrices]_vars

(***************************************************************************)
(* get_token_prices against an upstream whose payloads name their feed:   *)
(* Hermes answers with the payloads of some of the requested feeds, in    *)
(* any order.                                                              *)
(***************************************************************************)
FeedSymbols == {ETH, USDC, BTC}

\* The payload Hermes holds for a feed: its id, and a price that tells the
\* feeds apart (ETH 2000, USDC 1, BTC 60000).
FeedPayload(symbol) ==
    [kind |-> "dict",
     id |-> price_feed_ids[symbol],
     price |-> PriceInfo(IntField(CASE symbol = ETH -> 2000 [] symbol = USDC -> 1 [] OTHER -> 60000),
                         IntField(1), IntField(0)),
     publish_time |-> IntField(1700)]

NoRepeat(l) == \A i, j \in 1..Len(l) : l[i] = l[j] => i = j

\* The feeds answered: requested ones only, none twice.
FeedAnswers(syms) ==
    {l \in SeqsUpTo({FeedPayload(x) : x \in FeedSymbols}, MaxPayloads) :
        /\ NoRepeat(l)
        /\ \A i \in 1..Len(l) : \E j \in 1..Len(syms) : l[i].id = price_feed_ids[Upper(syms[j])]}

InitFeeds ==
    /\ pc = "prices_call"
    /\ symbols \in {l \in SeqsUpTo(FeedSymbols \cup {Lower(ETH)}, MaxSymbols) : NoRepeat(l)}
    /\ \E l \in FeedAnswers(symbols) : upstream = Hermes("ok_list", l, "none", <<>>)
    /\ now \in NowSamples
    /\ priceOut = Idle
    /\ payload = Idle /\ parsed = Idle /\ graph = Idle /\ response = Idle
    /\ recIn = Idle /\ recOut = Idle
    /\ LaterIdle

SpecFeeds == InitFeeds /\ [][NextPrices]_vars

(***************************************************************************)
(* The decoder as a state machine: one payload through _parse_price and   *)
(* _parse_confidence                                                       *)
(***************************************************************************)
DecodeFields(lo, hi) == {IntField(n) : n \in lo..hi} \cup {BadField, NoField}

DecodeInputs ==
    {StrPayload} \cup
    {DictPayload(PriceInfo(p, c, x), NoField) :
        p \in DecodeFields(-MaxMantissa, MaxMantissa),
        c \in DecodeFields(0, MaxMantissa),
        x \in DecodeFields(-MaxExpo, MaxExpo)}

InitDecode ==
    /\ pc = "decode_call"
    /\ payload \in DecodeInputs
    /\ parsed = Idle
    /\ symbols = Idle /\ upstream = Idle /\ now = Idle /\ priceOut = Idle
    /\ graph = Idle /\ response = Idle /\ recIn = Idle /\ recOut = Idle
    /\ LaterIdle

ParsePayload ==
    /\ pc = "decode_call"
    /\ parsed' = [price |-> _parse_price(payload), confidence |-> _parse_confidence(payload)]
    /\ pc' = "decode_done"
    /\ UNCHANGED <<symbols, upstream, now, priceOut, payload, graph, response, recIn, recOut, laterVars>>

NextDecode == ParsePayload

SpecDecode == InitDecode /\ [][NextDecode]_vars

(***************************************************************************)
(* GraphDataFetcher.get_user_portfolio (src/thegraph.py)                   *)
(***************************************************************************)
Token(sym, bal) == [symbol |-> sym, balance |-> bal]

\* The mock portfolio: ETH "2.5", USDC "1500.50", MATIC "100.0"; one position.
MockPortfolio ==
    [tokens |-> <<Token(ETH, Dec(25, -1)), Token(USDC, Dec(150050, -2)), Token(MATIC, Dec(1000, -1))>>,
     positions |-> 1, data_source |-> "mock"]

\* get_user_portfolio: the parsed real data when the real fetch gave any,
\* the mock portfolio otherwise (demo key, failed fetch, no data).
get_user_portfolio(g) ==
    IF g.kind = "real"
    THEN [tokens |-> g.tokens, positions |-> 0, data_source |-> "thegraph_real"]
    ELSE MockPortfolio

\* str(Decimal) and Decimal(str): the text keeps coefficient and exponent.
DecStr(d) == [text |-> "decimal", c |-> d.c, e |-> d.e]
DecParse(s) == Dec(s.c, s.e)
StrZero == DecStr(Dec0)                              \* the literal "0"

(***************************************************************************)
(* PolygonConnector (src/polygon.py)                                       *)
(* self.w3 is "none" (never built), "not_connected" (is_connected() is     *)
(* False), "check_raises" (is_connected() raises) or "connected"; rpc says *)
(* whether the RPC call made after the check answers ("ok") or raises.     *)
(***************************************************************************)
W3States == {"none", "not_connected", "check_raises", "connected"}
\* Whether a request sent to the RPC endpoint is answered or raises.
RpcSamples == {"ok", "raises"}
NotConnected(w3) == w3 \in {"none", "not_connected"}

\* Web3.to_checksum_address: the checksummed spelling of a well-formed
\* address in either spelling; it raises on anything else.
WellFormed(address) == address \in {"0xAlice", "0xalice", "0xToken", "0xtoken"}
to_checksum_address(address) ==
    CASE address \in {"0xAlice", "0xalice"} -> "0xAlice"
      [] address \in {"0xToken", "0xtoken"} -> "0xToken"

ErrorResult(message) == [error |-> message]
IsError(result) == "error" \in DOMAIN result
IsMock(result) == "mock" \in DOMAIN result /\ result.mock = TRUE

_get_mock_block_info(t) ==
    [number |-> 50000000, hash |-> "0x1234567890abcdef...", timestamp |-> t,
     gas_limit |-> 30000000, gas_used |-> 15000000, transaction_count |-> 150,
     miner |-> "0x0000000000000000000000000000000000000000",
     difficulty |-> 1, size |-> 50000, mock |-> TRUE]

_get_mock_balance(address) ==
    [address |-> address,
     balance_wei |-> "1000000000000000000",
     balance_matic |-> DecStr(Dec(10, -1)),
     balance_usd |-> DecStr(Dec(85, -2)),
     currency |-> "MATIC",
     mock |-> TRUE]

_get_mock_token_balance(token_address, user_address) ==
    [token_address |-> token_address,
     user_address |-> user_address,
     balance_raw |-> "1000000000000000000000",
     balance |-> DecStr(Dec(10000, -1)),
     decimals |-> 18,
     symbol |-> "MOCK",
     mock |-> TRUE]

\* get_latest_block: the mock block when not connected and on any exception.
get_latest_block(w3, rpc, block, t) ==
    IF w3 = "check_raises" THEN _get_mock_block_info(t)
    ELSE IF NotConnected(w3) THEN _get_mock_block_info(t)
    ELSE IF rpc = "raises" THEN _get_mock_block_info(t)
    ELSE [number |-> block.number, hash |-> block.hash, timestamp |-> block.timestamp,
          gas_limit |-> block.gasLimit, gas_used |-> block.gasUsed,
          transaction_count |-> block.transactions, miner |-> block.miner,
          difficulty |-> block.difficulty, size |-> block.size]

\* get_balance with the address checked before the connection.
GetBalanceValidatingFirst(w3, rpc, address, balance_wei) ==
    IF ~WellFormed(address) THEN ErrorResult("Invalid address format")
    ELSE _get_mock_balance(address)
\* get_balance: the mock balance when not connected; an error object for a
\* malformed address and for any exception (outer except).
get_balance(w3, rpc, address, balance_wei) ==
    IF w3 = "check_raises" THEN ErrorResult("connection")
    ELSE IF NotConnected(w3) THEN _get_mock_balance(address)
    ELSE IF ~WellFormed(address) THEN ErrorResult("Invalid address format")
    ELSE IF rpc = "raises" THEN ErrorResult("connection")
    ELSE [address |-> to_checksum_address(address),
          balance_wei |-> balance_wei,
          balance_matic |-> DecStr(Dec(balance_wei, -18)),
          balance_usd |-> DecStr(Dec(balance_wei * 85, -20)),
          currency |-> "MATIC"]

\* get_token_balance checking the token address only.
GetTokenBalanceTokenOnly(w3, rpc, token_address, user_address, erc20) ==
    IF w3 = "check_raises" THEN ErrorResult("connection")
    ELSE IF NotConnected(w3) THEN _get_mock_token_balance(token_address, user_address)
    ELSE IF ~WellFormed(token_address) THEN ErrorResult("Invalid address format")
    ELSE IF rpc = "raises" THEN ErrorResult("connection")
    ELSE [token_address |-> to_checksum_address(token_address),
          user_address |-> user_address,
          balance_raw |-> erc20.balance,
          balance |-> DecStr(Dec(erc20.balance, 0 - erc20.decimals)),
          decimals |-> erc20.decimals,
          symbol |-> erc20.symbol]

\* get_token_balance: as get_balance, for the two addresses.
get_token_balance(w3, rpc, token_address, user_address, erc20) ==
    IF w3 = "check_raises" THEN ErrorResult("connection")
    ELSE IF NotConnected(w3) THEN _get_mock_token_balance(token_address, user_address)
    ELSE IF ~WellFormed(token_address) \/ ~WellFormed(user_address)
         THEN ErrorResult("Invalid address format")
    ELSE IF rpc = "raises" THEN ErrorResult("connection")
    ELSE [token_address |-> to_checksum_address(token_address),
          user_address |-> to_checksum_address(user_address),
          balance_raw |-> erc20.balance,
          balance |-> DecStr(Dec(erc20.balance, 0 - erc20.decimals)),
          decimals |-> erc20.decimals,
          symbol |-> erc20.symbol]

\* wait_for_transaction, not connected: the mock receipt after the sleep.
MockDelay == 2       \* asyncio.sleep(2)
MockReceipt(tx_hash) ==
    [hash |-> tx_hash, status |-> 1, block_number |-> 50000000,
     gas_used |-> 150000, mock |-> TRUE]
\* wait_for_transaction, connected: the receipt of the mined transaction.
Receipt(tx_hash, receipt) ==
    [hash |-> tx_hash, status |-> receipt.status, block_number |-> receipt.blockNumber,
     gas_used |-> receipt.gasUsed, cumulative_gas_used |-> receipt.cumulativeGasUsed,
     logs |-> <<>>, success |-> receipt.status = 1]

\* PolygonConnector.get_network_info: mock when not connected and on any exception.
_get_mock_network_info ==
    [chain_id |-> 137, network_name |-> "Polygon Mainnet (Mock)", current_block |-> 50000000,
     gas_price_gwei |-> "30", gas_price_wei |-> "30000000000", is_syncing |-> FALSE,
     rpc_endpoint |-> "rpc_url", connected |-> FALSE, mock |-> TRUE]
get_network_info(w3, rpc, block) ==
    IF w3 # "connected" \/ rpc = "raises" THEN _get_mock_network_info
    ELSE [chain_id |-> 137, network_name |-> "Polygon Mainnet", current_block |-> block.number,
          gas_price_gwei |-> "30", gas_price_wei |-> "30000000000", is_syncing |-> FALSE,
          rpc_endpoint |-> "rpc_url", connected |-> TRUE]

(***************************************************************************)
(* POST /portfolio/analyze (src/main.py)                                   *)
(***************************************************************************)
\* Long division: the quotient (acc * 10 + r) * 10^k / den, digit by digit
\* (r < den), and the remainder left.
RECURSIVE LongDiv(_, _, _, _)
LongDiv(acc, r, den, k) ==
    IF k = 0 THEN [q |-> acc, r |-> r]
    ELSE LongDiv(acc * 10 + (r * 10) \div den, (r * 10) % den, den, k - 1)

\* The rounding of a quantize: the integer nearest to q + r / den (den > 0).
\* ROUND_HALF_UP takes a tie away from zero, ROUND_HALF_EVEN (the default of
\* decimal's context) to the even neighbour.
RoundHalfUp(q, r, den) == IF 2 * r >= den THEN q + 1 ELSE q
RoundHalfEven(q, r, den) ==
    IF 2 * r > den \/ (2 * r = den /\ q % 2 = 1) THEN q + 1 ELSE q

\* ((value / total) * 100).quantize(Decimal('0.01')) for value >= 0 < total.
\* The quotient is taken exactly: the 28-digit rounding of the division
\* cannot move a quotient of numbers of these sizes onto a tie.
AllocationPctNoTimes100(value, total) ==
    LET n == Scaled(value, Min(value.e, total.e))
        d == Scaled(total, Min(value.e, total.e))
        whole == LongDiv(n \div d, n % d, d, 2)
    IN  Dec(RoundHalfEven(whole.q, whole.r, d), -2)
AllocationPct(value, total) ==
    LET n == Scaled(value, Min(value.e, total.e))
        d == Scaled(total, Min(value.e, total.e))
        whole == LongDiv(n \div d, n % d, d, 4)
    IN  Dec(RoundHalfEven(whole.q, whole.r, d), -2)

\* The "Calculate portfolio values" loop: the enriched tokens and the total.
RECURSIVE EnrichTokensDropping(_, _, _, _, _)
EnrichTokensDropping(tokens, prices, i, total, out) ==
    IF i > Len(tokens) THEN [total |-> total, tokens |-> out]
    ELSE IF tokens[i].symbol \in DOMAIN prices
    THEN EnrichTokensDropping(tokens, prices, i + 1,
            DecAdd(total, DecMul(tokens[i].balance, prices[tokens[i].symbol].price)),
            Append(out, [symbol |-> tokens[i].symbol,
                         balance |-> tokens[i].balance,
                         current_price_usd |-> DecStr(prices[tokens[i].symbol].price),
                         value_usd |-> DecStr(DecMul(tokens[i].balance, prices[tokens[i].symbol].price)),
                         price_source |-> prices[tokens[i].symbol].source]))
    ELSE EnrichTokensDropping(tokens, prices, i + 1, total, out)
RECURSIVE EnrichTokens(_, _, _, _, _)
EnrichTokens(tokens, prices, i, total, out) ==
    IF i > Len(tokens) THEN [total |-> total, tokens |-> out]
    ELSE IF tokens[i].symbol \in DOMAIN prices
    THEN LET current_price == prices[tokens[i].symbol].price
             token_value_usd == DecMul(tokens[i].balance, current_price)
         IN  EnrichTokens(tokens, prices, i + 1, DecAdd(total, token_value_usd),
                Append(out, [symbol |-> tokens[i].symbol,
                             balance |-> tokens[i].balance,
                             current_price_usd |-> DecStr(current_price),
                             value_usd |-> DecStr(token_value_usd),
                             price_source |-> prices[tokens[i].symbol].source]))
    ELSE EnrichTokens(tokens, prices, i + 1, total,
            Append(out, [symbol |-> tokens[i].symbol,
                         balance |-> tokens[i].balance,
                         current_price_usd |-> StrZero,
                         value_usd |-> StrZero,
                         price_source |-> "unavailable"]))

\* Whether the allocation loop divides: "if total_value_usd > 0".
DividesAlways(total) == TRUE
Divides(total) == DecLt(Dec0, total)

\* The "Calculate portfolio allocation percentages" loop; exc when a division
\* by zero is raised.
AllocateTokens(enriched, total) ==
    [exc |-> \E i \in 1..Len(enriched) : Divides(total) /\ total.c = 0,
     tokens |-> [i \in 1..Len(enriched) |->
        [symbol |-> enriched[i].symbol,
         balance |-> enriched[i].balance,
         current_price_usd |-> enriched[i].current_price_usd,
         value_usd |-> enriched[i].value_usd,
         price_source |-> enriched[i].price_source,
         allocation_percentage |->
            IF Divides(total) /\ total.c # 0
            THEN DecStr(AllocationPct(DecParse(enriched[i].value_usd), total))
            ELSE StrZero]]]

\* "token_symbols = [token["symbol"] for token in ...]", and the list of
\* common tokens that /test/all asks for instead.
TokenSymbolsCommon(portfolio_data) == <<ETH, BTC, MATIC, USDC>>
TokenSymbols(portfolio_data) ==
    [i \in 1..Len(portfolio_data.tokens) |-> portfolio_data.tokens[i].symbol]

\* "price_data_sources": one entry per key of prices; and the variant that
\* keeps the live quotes only.
PriceDataSourcesLive(prices) ==
    [k \in {x \in DOMAIN prices : prices[x].source # "mock"} |-> prices[k].source]
PriceDataSources(prices) == [k \in DOMAIN prices |-> prices[k].source]

\* analyze_portfolio after its last outbound call: the 200 response, or the
\* 500 of the endpoint's except.
BuildResponse(address, portfolio_data, prices, network_info, balance_info) ==
    LET valued == EnrichTokens(portfolio_data.tokens, prices, 1, Dec0, <<>>)
        allocated == AllocateTokens(valued.tokens, valued.total)
    IN  IF allocated.exc
        THEN [status |-> 500, total_value_usd |-> StrZero, token_count |-> 0,
              positions_count |-> 0, tokens |-> <<>>, price_data_sources |-> <<>>]
        ELSE [status |-> 200,
              address |-> address,
              network_info |-> network_info,
              native_balance |-> balance_info,
              total_value_usd |-> DecStr(valued.total),
              token_count |-> Len(allocated.tokens),
              positions_count |-> portfolio_data.positions,
              tokens |-> allocated.tokens,
              price_data_sources |-> PriceDataSources(prices)]

\* The price call of analyze_portfolio: none for an empty symbol list.
FetchedPrices(token_symbols, up, t) ==
    IF token_symbols # <<>> THEN get_token_prices(token_symbols, up, t).prices ELSE <<>>

\* analyze_portfolio: the four outbound calls in order, then the response.
\* chain is the state of the connector's Web3 handle and RPC endpoint.
analyze_portfolio(g, up, t, address, chain) ==
    LET portfolio_data == get_user_portfolio(g)
        prices == FetchedPrices(TokenSymbols(portfolio_data), up, t)
        network_info == get_network_info(chain.w3, chain.rpc, chain.block)
        balance_info == get_balance(chain.w3, chain.rpc, address, chain.balance_wei)
    IN  BuildResponse(address, portfolio_data, prices, network_info, balance_info)

(***************************************************************************)
(* The valuation as a state machine: one POST /portfolio/analyze          *)
(***************************************************************************)
TokenSymbolSamples == {USDC, USDT, Lower(USDC)}
BalanceSamples == {Dec(0, 0), Dec(1, 0), Dec(31, 0), Dec(40, 0), Dec(60, 0)}
TokenSamples == {Token(s, b) : s \in TokenSymbolSamples, b \in BalanceSamples}

GraphOutcomes ==
    {[kind |-> "demo", tokens |-> <<>>], [kind |-> "real_failed", tokens |-> <<>>]}
    \cup {[kind |-> "real", tokens |-> l] : l \in SeqsUpTo(TokenSamples, MaxTokens)}

ValuationHermes ==
    {Hermes("exc", <<>>, "none", <<>>)}
    \cup {Hermes("ok_list", l, "none", <<>>) :
            l \in SeqsUpTo({GoodPayloadNoTime, NoPricePayload}, MaxTokens)}

\* The valuation is run with the chain endpoint not connected.
ChainDown ==
    [w3 |-> "not_connected", rpc |-> "ok", balance_wei |-> 0,
     block |-> [number |-> 61000000]]

InitValuation ==
    /\ pc = "analyze_call"
    /\ graph \in GraphOutcomes
    /\ upstream \in ValuationHermes
    /\ now = 1000
    /\ response = Idle
    /\ LaterIdle
    /\ symbols = Idle /\ priceOut = Idle /\ payload = Idle /\ parsed = Idle
    /\ recIn = Idle /\ recOut = Idle

AnalyzePortfolio ==
    /\ pc = "analyze_call"
    /\ response' = analyze_portfolio(graph, upstream, now, "0xAlice", ChainDown)
    /\ pc' = "analyze_done"
    /\ UNCHANGED <<symbols, upstream, now, priceOut, payload, parsed, graph, recIn, recOut, laterVars>>

NextValuation == AnalyzePortfolio

SpecValuation == InitValuation /\ [][NextValuation]_vars

(***************************************************************************)
(* POST /portfolio/analyze call by call: each await of the handler is one *)
(* step, and calls records the outbound calls made so far.                 *)
(***************************************************************************)
PipelineTokens == {Token(USDC, Dec(1, 0)), Token(Lower(USDC), Dec(31, 0)), Token(ETH, Dec(2, 0))}

PipelineGraph ==
    {[kind |-> "demo", tokens |-> <<>>], [kind |-> "real_failed", tokens |-> <<>>]}
    \cup {[kind |-> "real", tokens |-> l] : l \in SeqsUpTo(PipelineTokens, MaxTokens)}

PipelineHermes ==
    {Hermes("exc", <<>>, "none", <<>>), Hermes("bad_status", <<>>, "bad_status", <<>>)}
    \cup {Hermes("ok_list", l, "none", <<>>) : l \in SeqsUpTo({GoodPayloadNoTime}, MaxTokens)}

PipelineChain ==
    {[w3 |-> w, rpc |-> r, balance_wei |-> 5, block |-> [number |-> 61000000]] :
        w \in W3States, r \in RpcSamples}

PipelineAddresses == {"0xAlice", "not-an-address"}

PipelinePcs == {"pipe_start", "pipe_prices", "pipe_network", "pipe_balance", "pipe_done"}

InitPipeline ==
    /\ pc = "pipe_start"
    /\ graph \in PipelineGraph
    /\ upstream \in PipelineHermes
    /\ now = 1000
    /\ chainIn \in PipelineChain
    /\ \E a \in PipelineAddresses : frame = [address |-> a]
    /\ calls = <<>>
    /\ response = Idle
    /\ symbols = Idle /\ priceOut = Idle /\ payload = Idle /\ parsed = Idle
    /\ recIn = Idle /\ recOut = Idle
    /\ insIn = Idle /\ insOut = Idle /\ chainOut = Idle /\ elapsed = Idle
    /\ ServiceIdle

pipelineRest ==
    <<symbols, upstream, now, priceOut, payload, parsed, graph, recIn, recOut,
      insIn, insOut, chainIn, chainOut, elapsed, serviceVars>>

\* "portfolio_data = await graph_fetcher.get_user_portfolio(request.address)"
FetchPortfolio ==
    /\ pc = "pipe_start"
    /\ calls' = Append(calls, [service |-> "indexing", address |-> frame.address])
    /\ frame' = frame @@ [portfolio_data |-> get_user_portfolio(graph)]
    /\ pc' = "pipe_prices"
    /\ UNCHANGED <<response, pipelineRest>>

\* "if token_symbols: prices = await pyth_service.get_token_prices(...)"
FetchPrices ==
    /\ pc = "pipe_prices"
    /\ LET token_symbols == TokenSymbols(frame.portfolio_data)
       IN  /\ calls' = IF token_symbols # <<>>
                       THEN Append(calls, [service |-> "price", symbols |-> token_symbols])
                       ELSE calls
           /\ frame' = frame @@ [prices |-> FetchedPrices(token_symbols, upstream, now)]
    /\ pc' = "pipe_network"
    /\ UNCHANGED <<response, pipelineRest>>

\* "network_info = await polygon_connector.get_network_info()"
FetchNetworkInfo ==
    /\ pc = "pipe_network"
    /\ calls' = Append(calls, [service |-> "network_info"])
    /\ frame' = frame @@ [network_info |->
                            get_network_info(chainIn.w3, chainIn.rpc, chainIn.block)]
    /\ pc' = "pipe_balance"
    /\ UNCHANGED <<response, pipelineRest>>

\* "balance_info = await polygon_connector.get_balance(request.address)" and
\* the rest of the handler, which makes no further call.
FetchBalance ==
    /\ pc = "pipe_balance"
    /\ calls' = Append(calls, [service |-> "balance", address |-> frame.address])
    /\ LET balance_info == get_balance(chainIn.w3, chainIn.rpc, frame.address,
                                       chainIn.balance_wei)
       IN  /\ frame' = frame @@ [balance_info |-> balance_info]
           /\ response' = BuildResponse(frame.address, frame.portfolio_data, frame.prices,
                                        frame.network_info, balance_info)
    /\ pc' = "pipe_done"
    /\ UNCHANGED pipelineRest

NextPipeline == FetchPortfolio \/ FetchPrices \/ FetchNetworkInfo \/ FetchBalance

SpecPipeline == InitPipeline /\ [][NextPipeline]_vars

(***************************************************************************)
(* ASIAgentReasoning._generate_recommendation (src/asi_alliance.py)        *)
(* Floats are in thousandths: scores 0..1000, percentages in 1/1000 %.     *)
(***************************************************************************)
\* self.risk_thresholds, and the moderate entry for any other risk_tolerance.
risk_thresholds ==
    [conservative |-> [max_allocation |-> 5000, min_confidence |-> 800],
     moderate |-> [max_allocation |-> 10000, min_confidence |-> 700],
     aggressive |-> [max_allocation |-> 20000, min_confidence |-> 600]]

RiskParams(risk_tolerance) ==
    IF risk_tolerance \in DOMAIN risk_thresholds THEN risk_thresholds[risk_tolerance]
    ELSE risk_thresholds["moderate"]

\* "Buy signals": sentiment_score > 0.7 and current_allocation < max_allocation.
BuySignalAtThreshold(sentiment_score, current_allocation, risk_params) ==
    sentiment_score >= 700 /\ current_allocation < risk_params.max_allocation
BuySignal(sentiment_score, current_allocation, risk_params) ==
    sentiment_score > 700 /\ current_allocation < risk_params.max_allocation

\* "Sell signals": sentiment_score < 0.4 or current_allocation > max_allocation * 1.5.
SellSignalBoth(sentiment_score, current_allocation, risk_params) ==
    sentiment_score < 400 /\ 2 * current_allocation > 3 * risk_params.max_allocation
SellSignal(sentiment_score, current_allocation, risk_params) ==
    sentiment_score < 400 \/ 2 * current_allocation > 3 * risk_params.max_allocation

\* The confidence of each branch; 0.6 is the value the function starts with.
ConfidenceKeepsInitial(action, sentiment_score) ==
    CASE action = "buy" -> Min(950, sentiment_score + 100)
      [] action = "sell" -> Min(900, 1000 - sentiment_score + 200)
      [] OTHER -> 600
Confidence(action, sentiment_score) ==
    CASE action = "buy" -> Min(950, sentiment_score + 100)
      [] action = "sell" -> Min(900, 1000 - sentiment_score + 200)
      [] OTHER -> 700

\* The sign of the binary floating-point error of the confidence where the
\* exact value sits on a threshold of the risk assessment: 1 - 0.6 + 0.2 is
\* 0.6000000000000001, while 1 - 0.4 + 0.2 is 0.8 and a hold's 0.7 is exact.
ConfidenceExcess(action, sentiment_score) ==
    IF action = "sell" /\ sentiment_score = 600 THEN 1 ELSE 0

\* "Risk assessment": low above 0.8, moderate above 0.6, high otherwise.
RiskLevelInclusive(confidence, excess) ==
    IF confidence >= 800 THEN "low"
    ELSE IF confidence >= 600 THEN "moderate"
    ELSE "high"
RiskLevel(confidence, excess) ==
    IF confidence > 800 \/ (confidence = 800 /\ excess > 0) THEN "low"
    ELSE IF confidence > 600 \/ (confidence = 600 /\ excess > 0) THEN "moderate"
    ELSE "high"

NoneValue == [none |-> TRUE]

\* "suggested_percentage", in thousandths of a percent; and the variant that
\* always suggests the 5 % step for a buy.
SuggestedPercentageFlat(action, current_allocation, risk_params) ==
    CASE action = "buy" -> 5000
      [] action = "sell" -> Min((current_allocation * 3) \div 10, 10000)
      [] OTHER -> 0
SuggestedPercentage(action, current_allocation, risk_params) ==
    CASE action = "buy" -> Min(5000, risk_params.max_allocation - current_allocation)
      [] action = "sell" -> Min((current_allocation * 3) \div 10, 10000)
      [] OTHER -> 0

\* _generate_recommendation; rnd holds the three random.uniform draws, in percent.
\* The float it returns as "confidence" is confidence thousandths plus the
\* rounding error whose sign is confidence_excess.
_generate_recommendation(token_symbol, allocation_analysis, market_analysis, risk_tolerance, rnd) ==
    LET current_allocation == allocation_analysis.current_allocation
        sentiment_score == market_analysis.sentiment_score
        risk_params == RiskParams(risk_tolerance)
        action == IF BuySignal(sentiment_score, current_allocation, risk_params) THEN "buy"
                  ELSE IF SellSignal(sentiment_score, current_allocation, risk_params) THEN "sell"
                  ELSE "hold"
        confidence == Confidence(action, sentiment_score)
        suggested_percentage == SuggestedPercentage(action, current_allocation, risk_params)
        current_price == IF "current_price" \in DOMAIN market_analysis
                         THEN market_analysis.current_price ELSE 100
    IN  [token_symbol |-> token_symbol,
         action |-> action,
         confidence |-> confidence,
         confidence_excess |-> ConfidenceExcess(action, sentiment_score),
         risk_assessment |-> RiskLevel(confidence, ConfidenceExcess(action, sentiment_score)),
         suggested_amount_percentage |-> suggested_percentage,
         price_target |-> IF action = "buy" THEN [none |-> FALSE, v |-> current_price * rnd.upside]
                          ELSE NoneValue,
         stop_loss |-> CASE action = "buy" -> [none |-> FALSE, v |-> current_price * rnd.downside]
                         [] action = "sell" -> [none |-> FALSE, v |-> current_price * rnd.sell_stop]
                         [] OTHER -> NoneValue,
         timeframe |-> "medium-term",
         source |-> "asi_mock",
         analysis_details |-> [portfolio_allocation |-> allocation_analysis,
                               market_sentiment |-> market_analysis,
                               risk_tolerance |-> risk_tolerance]]

(***************************************************************************)
(* The recommendation rules as a state machine: one call                   *)
(***************************************************************************)
AllocationSamples == {500 * k : k \in 0..MaxAlloc}       \* 0 %, 0.5 %, 1 %, ...
SentimentSamples == {50 * k : k \in 0..MaxSent}          \* 0, 0.05, 0.10, ...
RiskToleranceSamples == {"conservative", "moderate", "aggressive", "reckless"}
UpsideSamples == {105, 125}       \* random.uniform(1.05, 1.25)
DownsideSamples == {85, 95}       \* random.uniform(0.85, 0.95)
SellStopSamples == {80, 90}       \* random.uniform(0.80, 0.90)

InitRecommend ==
    /\ pc = "rec_call"
    /\ recIn \in [token_symbol : {ETH},
                  current_allocation : AllocationSamples,
                  sentiment_score : SentimentSamples,
                  current_price : {100},
                  risk_tolerance : RiskToleranceSamples]
    /\ recOut = Idle
    /\ LaterIdle
    /\ symbols = Idle /\ upstream = Idle /\ now = Idle /\ priceOut = Idle
    /\ payload = Idle /\ parsed = Idle /\ graph = Idle /\ response = Idle

GenerateRecommendation ==
    /\ pc = "rec_call"
    /\ \E u \in UpsideSamples, d \in DownsideSamples, ss \in SellStopSamples :
          recOut' = _generate_recommendation(
                        recIn.token_symbol,
                        [current_allocation |-> recIn.current_allocation],
                        [sentiment_score |-> recIn.sentiment_score,
                         current_price |-> recIn.current_price],
                        recIn.risk_tolerance,
                        [upside |-> u, downside |-> d, sell_stop |-> ss])
    /\ pc' = "rec_done"
    /\ UNCHANGED <<symbols, upstream, now, priceOut, payload, parsed, graph, response, recIn, laterVars>>

NextRecommend == GenerateRecommendation

SpecRecommend == InitRecommend /\ [][NextRecommend]_vars

(***************************************************************************)
(* ASIAgentReasoning.generate_insight (src/asi_alliance.py)                *)
(* A value read from a dict is Num(v), or NotNumber for a str that is not  *)
(* a number; an absent key is absent from the record's DOMAIN.             *)
(***************************************************************************)
Num(v) == [kind |-> "num", v |-> v]
NotNumber == [kind |-> "bad"]
NoDict == <<>>          \* {} : a dict without any key

_generate_fallback_insight(token_symbol) ==
    [token_symbol |-> token_symbol,
     action |-> "hold",
     confidence |-> 500,
     confidence_excess |-> 0,
     risk_assessment |-> "moderate",
     suggested_amount_percentage |-> 0,
     price_target |-> NoneValue,
     stop_loss |-> NoneValue,
     timeframe |-> "short-term",
     source |-> "fallback"]

\* The loop of _analyze_portfolio_allocation: Decimal(value_usd) raises on a
\* str that is not a number; an absent value_usd counts as "0".
RECURSIVE SumTokenValues(_, _, _, _, _)
SumTokenValues(tokens, token_symbol, i, total_value, token_value) ==
    IF i > Len(tokens) THEN [exc |-> FALSE, total_value |-> total_value, token_value |-> token_value]
    ELSE LET token == tokens[i]
             value_usd == IF "value_usd" \in DOMAIN token THEN token.value_usd ELSE Num(0)
             symbol == IF "symbol" \in DOMAIN token THEN token.symbol ELSE <<>>
         IN  IF value_usd.kind = "bad"
             THEN [exc |-> TRUE, total_value |-> 0, token_value |-> 0]
             ELSE SumTokenValues(tokens, token_symbol, i + 1, total_value + value_usd.v,
                                 IF Upper(symbol) = Upper(token_symbol) THEN value_usd.v
                                 ELSE token_value)

\* _analyze_portfolio_allocation: the except branch answers with allocation 0.
_analyze_portfolio_allocation(token_symbol, portfolio_data) ==
    LET tokens == IF "tokens" \in DOMAIN portfolio_data THEN portfolio_data.tokens ELSE <<>>
        sum == SumTokenValues(tokens, token_symbol, 1, 0, 0)
        allocation_percentage ==
            IF sum.total_value > 0 THEN (sum.token_value * 100000) \div sum.total_value ELSE 0
    IN  IF sum.exc
        THEN [current_allocation |-> 0, token_value |-> 0, total_portfolio_value |-> 0]
        ELSE [current_allocation |-> allocation_percentage,
              token_value |-> sum.token_value,
              total_portfolio_value |-> sum.total_value,
              is_overallocated |-> allocation_percentage > 15000,
              is_underallocated |-> allocation_percentage < 2000]

\* _analyze_market_sentiment: a str price or confidence raises (in price > 0,
\* in confidence / price or in float(confidence)) and the except branch
\* answers with sentiment 0.5 and no current_price.
_analyze_market_sentiment(token_symbol, market_data, rnd) ==
    LET token_data == IF Upper(token_symbol) \in DOMAIN market_data
                      THEN market_data[Upper(token_symbol)] ELSE NoDict
        price == IF "price" \in DOMAIN token_data THEN token_data.price ELSE Num(0)
        confidence == IF "confidence" \in DOMAIN token_data THEN token_data.confidence
                      ELSE Num(0)
        technical_score == rnd.technical
        momentum_score == rnd.momentum
        volatility_score == IF price.v > 0 THEN (confidence.v * 1000) \div price.v ELSE 500
        overall_sentiment == (technical_score + momentum_score + (1000 - volatility_score)) \div 3
    IN  IF price.kind = "bad" \/ confidence.kind = "bad"
        THEN [sentiment_score |-> 500, technical_score |-> 500, momentum_score |-> 500]
        ELSE [sentiment_score |-> overall_sentiment,
              technical_score |-> technical_score,
              momentum_score |-> momentum_score,
              volatility_score |-> volatility_score,
              current_price |-> price.v,
              price_confidence |-> confidence.v]

\* _generate_mock_insight: user_context.get raises when user_context is None.
_generate_mock_insight(token_symbol, portfolio_data, market_data, user_context, rnd) ==
    IF user_context = NoneValue THEN _generate_fallback_insight(token_symbol)
    ELSE _generate_recommendation(
             token_symbol,
             _analyze_portfolio_allocation(token_symbol, portfolio_data),
             _analyze_market_sentiment(token_symbol, market_data, rnd),
             IF "risk_tolerance" \in DOMAIN user_context THEN user_context.risk_tolerance
             ELSE "moderate",
             rnd)

\* dict.get(key, default) on the agent's "result" object.
GetOr(result, key, default) == IF key \in DOMAIN result THEN result[key] ELSE default

\* _parse_asi_response: the agent's values are copied without validation;
\* float() of a str that is not a number, or .get on a body that is not a
\* dict, raises into the except branch.
NotADict == [kind |-> "list"]
_parse_asi_response(data) ==
    LET result == IF "result" \in DOMAIN data THEN data.result ELSE NoDict
        confidence == GetOr(result, "confidence", Num(700))
        allocation == GetOr(result, "allocation", Num(5000))
    IN  IF data = NotADict \/ confidence.kind = "bad" \/ allocation.kind = "bad"
        THEN _generate_fallback_insight("UNKNOWN")
        ELSE [action |-> GetOr(result, "recommendation", "hold"),
              confidence |-> confidence.v,
              confidence_excess |-> 0,
              risk_assessment |-> GetOr(result, "risk", "moderate"),
              suggested_amount_percentage |-> allocation.v,
              price_target |-> GetOr(result, "price_target", NoneValue),
              stop_loss |-> GetOr(result, "stop_loss", NoneValue),
              timeframe |-> GetOr(result, "timeframe", "medium-term"),
              source |-> "asi_alliance"]

\* _fetch_asi_insight: one POST; None on a status other than 200 and on any
\* exception of the request.
_fetch_asi_insight(agent) ==
    CASE agent.kind = "exc" -> NoneValue
      [] agent.kind = "status" -> IF agent.status = 200 THEN _parse_asi_response(agent.data)
                                  ELSE NoneValue

\* generate_insight: the remote insight when an endpoint is configured and
\* answers, else the local one.
generate_insight(endpoint, agent, token_symbol, portfolio_data, market_data, user_context, rnd) ==
    LET real_insight == IF endpoint THEN _fetch_asi_insight(agent) ELSE NoneValue
    IN  IF endpoint /\ real_insight # NoneValue THEN real_insight
        ELSE _generate_mock_insight(token_symbol, portfolio_data, market_data, user_context, rnd)

(***************************************************************************)
(* generate_insight as a state machine: one call                           *)
(***************************************************************************)
MaxHoldings == 2     \* tokens in portfolio_data

ValueSamples == {Num(50), Num(950), NotNumber}
HoldingSamples ==
    {[symbol |-> sym, value_usd |-> v] : sym \in {ETH, USDC}, v \in ValueSamples}
    \cup {[symbol |-> ETH]}
PortfolioDataSamples ==
    {NoDict} \cup {[tokens |-> t] : t \in SeqsUpTo(HoldingSamples, MaxHoldings)}

MarketEntrySamples ==
    {NoDict, [price |-> Num(100)], [confidence |-> Num(1)]}
    \cup {[price |-> p, confidence |-> c] :
            p \in {Num(0), Num(100), NotNumber}, c \in {Num(1), Num(50), NotNumber}}
MarketDataSamples == {NoDict} \cup {ETH :> e : e \in MarketEntrySamples}

UserContextSamples ==
    {NoneValue, NoDict, [risk_tolerance |-> "moderate"], [risk_tolerance |-> "conservative"]}

\* What the remote agent does with the POST, when an endpoint is configured.
AgentResultSamples ==
    {NoDict,
     [recommendation |-> "buy", confidence |-> Num(850), risk |-> "low", allocation |-> Num(3000)],
     [recommendation |-> "strong_buy", confidence |-> Num(1500), risk |-> "extreme"],
     [recommendation |-> "sell", confidence |-> NotNumber]}
AgentSamples ==
    {[kind |-> "exc"], [kind |-> "status", status |-> 500, data |-> NoDict],
     [kind |-> "status", status |-> 200, data |-> NotADict],
     [kind |-> "status", status |-> 200, data |-> NoDict]}
    \cup {[kind |-> "status", status |-> 200, data |-> [result |-> r]] : r \in AgentResultSamples}

TechnicalSamples == {300, 900}    \* random.uniform(0.3, 0.9)
MomentumSamples == {200, 800}     \* random.uniform(0.2, 0.8)

InitInsight ==
    /\ pc = "insight_call"
    /\ \/ /\ insIn \in [endpoint : {FALSE}, agent : {[kind |-> "exc"]},
                        token_symbol : {ETH},
                        portfolio_data : PortfolioDataSamples,
                        market_data : MarketDataSamples,
                        user_context : UserContextSamples]
       \/ /\ insIn \in [endpoint : {TRUE}, agent : AgentSamples,
                        token_symbol : {Lower(ETH)},
                        portfolio_data : {[tokens |-> <<[symbol |-> ETH, value_usd |-> Num(50)],
                                                       [symbol |-> USDC, value_usd |-> Num(950)]>>]},
                        market_data : {ETH :> [price |-> Num(100), confidence |-> Num(1)]},
                        user_context : {[risk_tolerance |-> "moderate"]}]
    /\ insOut = Idle
    /\ EarlierIdle
    /\ chainIn = Idle /\ chainOut = Idle /\ elapsed = Idle
    /\ ServiceIdle /\ RequestIdle

GenerateInsight ==
    /\ pc = "insight_call"
    /\ \E t \in TechnicalSamples, m \in MomentumSamples,
          u \in UpsideSamples, d \in DownsideSamples, ss \in SellStopSamples :
          insOut' = generate_insight(
                        insIn.endpoint, insIn.agent, insIn.token_symbol,
                        insIn.portfolio_data, insIn.market_data, insIn.user_context,
                        [technical |-> t, momentum |-> m,
                         upside |-> u, downside |-> d, sell_stop |-> ss])
    /\ pc' = "insight_done"
    /\ UNCHANGED <<earlierVars, insIn, chainIn, chainOut, elapsed, serviceVars, requestVars>>

NextInsight == GenerateInsight

SpecInsight == InitInsight /\ [][NextInsight]_vars

(***************************************************************************)
(* _analyze_market_sentiment on its own: one call per behaviour            *)
(***************************************************************************)
\* Entries whose confidence interval is as wide as the price, or wider.
WideEntrySamples == {[price |-> Num(100), confidence |-> Num(c)] : c \in {100, 300}}
SentimentMarketSamples ==
    {NoDict} \cup {ETH :> e : e \in MarketEntrySamples \cup WideEntrySamples}

InitSentiment ==
    /\ pc = "sentiment_call"
    /\ insIn \in [token_symbol : {ETH, Lower(ETH), USDC}, market_data : SentimentMarketSamples]
    /\ insOut = Idle
    /\ EarlierIdle
    /\ chainIn = Idle /\ chainOut = Idle /\ elapsed = Idle
    /\ ServiceIdle /\ RequestIdle

AnalyzeMarketSentiment ==
    /\ pc = "sentiment_call"
    /\ \E t \in TechnicalSamples, m \in MomentumSamples :
          insOut' = _analyze_market_sentiment(insIn.token_symbol, insIn.market_data,
                                              [technical |-> t, momentum |-> m])
    /\ pc' = "sentiment_done"
    /\ UNCHANGED <<earlierVars, insIn, chainIn, chainOut, elapsed, serviceVars, requestVars>>

NextSentiment == AnalyzeMarketSentiment

SpecSentiment == InitSentiment /\ [][NextSentiment]_vars

(***************************************************************************)
(* The PolygonConnector operations as a state machine: one call; the wait  *)
(* of wait_for_transaction advances one second per step.                   *)
(***************************************************************************)
MaxTimeout == 3      \* largest caller-supplied timeout, in seconds

AddressSamples == {"0xAlice", "0xalice", "not-an-address", ""}
TokenAddressSamples == {"0xToken", "0xtoken", "not-an-address"}
BlockSample ==
    [number |-> 61000000, hash |-> "0xblock", timestamp |-> 999, gasLimit |-> 30000000,
     gasUsed |-> 12000000, transactions |-> 80, miner |-> "0xminer", difficulty |-> 1,
     size |-> 40000]
Erc20Samples == {[balance |-> b, decimals |-> 6, symbol |-> "USDC"] : b \in {0, 2500000}}
ReceiptSamples ==
    {[status |-> st, blockNumber |-> 61000001, gasUsed |-> 21000, cumulativeGasUsed |-> 90000] :
        st \in {0, 1}}

\* The fields a call does not read are held at one value.
ChainCall(op, w3, rpc) ==
    [op |-> op, w3 |-> w3, rpc |-> rpc, address |-> "0xAlice", balance_wei |-> 0,
     token_address |-> "0xToken", erc20 |-> [balance |-> 0, decimals |-> 6, symbol |-> "USDC"],
     tx_hash |-> "0xtx", timeout |-> 0, included_at |-> -1,
     receipt |-> [status |-> 1, blockNumber |-> 61000001, gasUsed |-> 21000,
                  cumulativeGasUsed |-> 90000]]

InitChain ==
    /\ pc = "chain_call"
    /\ \E w3 \in W3States, rpc \in RpcSamples :
          \/ chainIn = ChainCall("get_latest_block", w3, rpc)
          \/ \E a \in AddressSamples, wei \in {0, 5} :
                chainIn = [ChainCall("get_balance", w3, rpc)
                              EXCEPT !.address = a, !.balance_wei = wei]
          \/ \E ta \in TokenAddressSamples, ua \in AddressSamples, e \in Erc20Samples :
                chainIn = [ChainCall("get_token_balance", w3, rpc)
                              EXCEPT !.token_address = ta, !.address = ua, !.erc20 = e]
          \/ \E timeout \in 0..MaxTimeout, at \in (-1)..(MaxTimeout + 1), r \in ReceiptSamples :
                chainIn = [ChainCall("wait_for_transaction", w3, rpc)
                              EXCEPT !.timeout = timeout, !.included_at = at, !.receipt = r]
    /\ chainOut = Idle
    /\ elapsed = 0
    /\ EarlierIdle
    /\ insIn = Idle /\ insOut = Idle /\ ServiceIdle /\ RequestIdle

chainRest == <<earlierVars, insIn, insOut, serviceVars, requestVars>>

GetLatestBlock ==
    /\ pc = "chain_call" /\ chainIn.op = "get_latest_block"
    /\ chainOut' = get_latest_block(chainIn.w3, chainIn.rpc, BlockSample, 1000)
    /\ pc' = "chain_done"
    /\ UNCHANGED <<chainIn, elapsed, chainRest>>

GetBalance ==
    /\ pc = "chain_call" /\ chainIn.op = "get_balance"
    /\ chainOut' = get_balance(chainIn.w3, chainIn.rpc, chainIn.address, chainIn.balance_wei)
    /\ pc' = "chain_done"
    /\ UNCHANGED <<chainIn, elapsed, chainRest>>

GetTokenBalance ==
    /\ pc = "chain_call" /\ chainIn.op = "get_token_balance"
    /\ chainOut' = get_token_balance(chainIn.w3, chainIn.rpc, chainIn.token_address,
                                     chainIn.address, chainIn.erc20)
    /\ pc' = "chain_done"
    /\ UNCHANGED <<chainIn, elapsed, chainRest>>

\* wait_for_transaction up to its first wait: the connection check.
WaitStart ==
    /\ pc = "chain_call" /\ chainIn.op = "wait_for_transaction"
    /\ IF chainIn.w3 = "check_raises"
       THEN chainOut' = ErrorResult("connection") /\ pc' = "chain_done"
       ELSE IF NotConnected(chainIn.w3)
       THEN chainOut' = chainOut /\ pc' = "wait_sleep"
       ELSE chainOut' = chainOut /\ pc' = "wait_receipt"
    /\ UNCHANGED <<chainIn, elapsed, chainRest>>

\* One second of asyncio.sleep(2), and the return after it.
WaitSleep ==
    /\ pc = "wait_sleep"
    /\ IF elapsed < MockDelay
       THEN elapsed' = elapsed + 1 /\ chainOut' = chainOut /\ pc' = pc
       ELSE elapsed' = elapsed /\ chainOut' = MockReceipt(chainIn.tx_hash) /\ pc' = "chain_done"
    /\ UNCHANGED <<chainIn, chainRest>>

\* w3.eth.wait_for_transaction_receipt(tx_hash, timeout=timeout): it polls
\* for the receipt, raises when the node fails and raises TimeExhausted
\* when the timeout has passed; the except branch turns both into an error
\* object.
WaitReceipt ==
    /\ pc = "wait_receipt"
    /\ IF chainIn.rpc = "raises"
       THEN elapsed' = elapsed /\ chainOut' = ErrorResult("connection") /\ pc' = "chain_done"
       ELSE IF chainIn.included_at >= 0 /\ chainIn.included_at <= elapsed
       THEN elapsed' = elapsed /\ chainOut' = Receipt(chainIn.tx_hash, chainIn.receipt)
            /\ pc' = "chain_done"
       ELSE IF elapsed >= chainIn.timeout
       THEN elapsed' = elapsed /\ chainOut' = ErrorResult("TimeExhausted") /\ pc' = "chain_done"
       ELSE elapsed' = elapsed + 1 /\ chainOut' = chainOut /\ pc' = pc
    /\ UNCHANGED <<chainIn, chainRest>>

NextChain ==
    \/ GetLatestBlock \/ GetBalance \/ GetTokenBalance
    \/ WaitStart \/ WaitSleep \/ WaitReceipt

SpecChain == InitChain /\ [][NextChain]_vars

(***************************************************************************)
(* The service (src/main.py): startup_event, GET /health, POST /test/all   *)
(* handles[k] is TRUE when the global of service k is set (not None).      *)
(***************************************************************************)
ServiceNames == {"thegraph", "pyth", "polygon"}
NoHandles == [k \in ServiceNames |-> FALSE]

\* startup_event: the three constructors in order; the globals assigned
\* before a constructor raises stay set and the exception is re-raised.
\* made is the number of constructors that returned.
startup_event(made) ==
    [handles |-> [thegraph |-> made >= 1, pyth |-> made >= 2, polygon |-> made >= 3],
     started |-> IF made = 3 THEN "ok" ELSE "failed"]

\* health_check with any() for all().
HealthCheckAny(h) ==
    [status |-> IF \E k \in ServiceNames : h[k] THEN "healthy" ELSE "degraded",
     services |-> [k \in ServiceNames |-> h[k]],
     initialized_services |-> Cardinality({k \in ServiceNames : h[k]}),
     total_services |-> Cardinality(ServiceNames)]
\* health_check: one flag per global, healthy when all are set.
health_check(h) ==
    [status |-> IF \A k \in ServiceNames : h[k] THEN "healthy" ELSE "degraded",
     services |-> [k \in ServiceNames |-> h[k]],
     initialized_services |-> Cardinality({k \in ServiceNames : h[k]}),
     total_services |-> Cardinality(ServiceNames)]

Failed == [status |-> "failed", error |-> "exception"]

\* The three sub-checks of test_all_services; a sub-check raises when its
\* global is None or when the client call raises (raises[k]).
TestTheGraph(h, raises, env) ==
    IF ~h.thegraph \/ raises.thegraph THEN Failed
    ELSE [status |-> "success", data |-> get_user_portfolio(env.graph)]
TestPyth(h, raises, env) ==
    LET prices == get_token_prices(<<ETH, BTC, MATIC, USDC>>, env.upstream, env.now)
    IN  IF ~h.pyth \/ raises.pyth \/ prices.raised THEN Failed
        ELSE [status |-> "success", prices |-> prices.prices]
TestPolygon(h, raises, address, env) ==
    IF ~h.polygon \/ raises.polygon THEN Failed
    ELSE [status |-> "success",
          block |-> get_latest_block(env.w3, env.rpc, BlockSample, env.now),
          network |-> get_network_info(env.w3, env.rpc, BlockSample),
          balance |-> get_balance(env.w3, env.rpc, address, 5)]

\* f"{success_rate:.1f}%", in tenths of a percent.
SuccessRate(successful, total) == (successful * 2000 + total) \div (2 * total)

\* test_all_services giving up at the first failed sub-check.
TestAllStoppingAtFailure(h, raises, address, env) ==
    LET first == TestTheGraph(h, raises, env)
        second == IF first.status = "failed" THEN Failed ELSE TestPyth(h, raises, env)
        third == IF second.status = "failed" THEN Failed
                 ELSE TestPolygon(h, raises, address, env)
        results == [thegraph |-> first, pyth |-> second, polygon |-> third]
        successful_tests == Cardinality({k \in DOMAIN results : results[k].status = "success"})
        total_tests == Cardinality(DOMAIN results)
    IN  [status_code |-> 200, comprehensive_test |-> TRUE, address |-> address,
         success_rate |-> SuccessRate(successful_tests, total_tests),
         successful_services |-> successful_tests, total_services |-> total_tests,
         results |-> results]
\* test_all_services: each sub-check in its own try/except.
test_all_services(h, raises, address, env) ==
    LET results == [thegraph |-> TestTheGraph(h, raises, env),
                    pyth |-> TestPyth(h, raises, env),
                    polygon |-> TestPolygon(h, raises, address, env)]
        successful_tests == Cardinality({k \in DOMAIN results : results[k].status = "success"})
        total_tests == Cardinality(DOMAIN results)
    IN  [status_code |-> 200, comprehensive_test |-> TRUE, address |-> address,
         success_rate |-> SuccessRate(successful_tests, total_tests),
         successful_services |-> successful_tests, total_services |-> total_tests,
         results |-> results]

(***************************************************************************)
(* The service as a state machine: startup once, requests at any time      *)
(***************************************************************************)
\* What the upstreams do during a /test/all request.
EnvSamples ==
    [graph : {[kind |-> "demo", tokens |-> <<>>]},
     upstream : {Hermes("exc", <<>>, "none", <<>>)},
     now : {1000},
     w3 : {"not_connected", "connected"},
     rpc : RpcSamples]

InitService ==
    /\ pc = "service_idle"
    /\ handles = NoHandles
    /\ started = "no"
    /\ svcIn = Idle /\ svcOut = Idle
    /\ EarlierIdle /\ RequestIdle
    /\ insIn = Idle /\ insOut = Idle /\ chainIn = Idle /\ chainOut = Idle /\ elapsed = Idle

\* The service is up: before startup, or after startup or a request.
ServicePcs == {"service_idle", "startup_done", "health_done", "test_all_done"}

serviceRest == <<earlierVars, insIn, insOut, chainIn, chainOut, elapsed, requestVars>>

StartupEvent ==
    /\ pc \in ServicePcs
    /\ started = "no"
    /\ \E made \in 0..3 :
          /\ handles' = startup_event(made).handles
          /\ started' = startup_event(made).started
    /\ pc' = "startup_done"
    /\ UNCHANGED <<svcIn, svcOut, serviceRest>>

HealthCheck ==
    /\ pc \in ServicePcs
    /\ svcIn' = [endpoint |-> "/health"]
    /\ svcOut' = health_check(handles)
    /\ pc' = "health_done"
    /\ UNCHANGED <<handles, started, serviceRest>>

TestAllServices ==
    /\ pc \in ServicePcs
    /\ \E address \in {"0xAlice", "not-an-address"},
          raises \in [ServiceNames -> BOOLEAN], env \in EnvSamples :
          /\ svcIn' = [endpoint |-> "/test/all", address |-> address, raises |-> raises]
          /\ svcOut' = test_all_services(handles, raises, address, env)
    /\ pc' = "test_all_done"
    /\ UNCHANGED <<handles, started, serviceRest>>

NextService == StartupEvent \/ HealthCheck \/ TestAllServices

SpecService == InitService /\ [][NextService]_vars

(***************************************************************************)
(* The whole model: any one of the operations above                        *)
(***************************************************************************)
Init ==
    \/ InitPrices \/ InitDecode \/ InitValuation \/ InitRecommend \/ InitInsight
    \/ InitChain \/ InitService \/ InitPipeline \/ InitSentiment \/ InitFeeds

Next ==
    \/ GetTokenPrices \/ ParsePayload \/ AnalyzePortfolio \/ GenerateRecommendation
    \/ GenerateInsight
    \/ GetLatestBlock \/ GetBalance \/ GetTokenBalance
    \/ WaitStart \/ WaitSleep \/ WaitReceipt
    \/ StartupEvent \/ HealthCheck \/ TestAllServices
    \/ FetchPortfolio \/ FetchPrices \/ FetchNetworkInfo \/ FetchBalance
    \/ AnalyzeMarketSentiment

Spec == Init /\ [][Next]_vars

(***************************************************************************)
(* Properties of get_token_prices                                          *)
(***************************************************************************)
\* The list the loop of get_token_prices reads, and the symbols it walks.
LatestPrices == _fetch_latest_prices(<<>>, upstream).list
Valid == ValidSymbols(symbols)
ValidDistinct == \A i, j \in 1..Len(Valid) : Valid[i] = Valid[j] => i = j

\* A payload with integer price, conf and expo; one the decoder cannot read.
Decodable(p) ==
    p.kind = "dict" /\ p.price.price.t = "int" /\ p.price.conf.t = "int" /\ p.price.expo.t = "int"
Undecodable(p) ==
    \/ p.kind = "str"
    \/ p.price = NoPriceInfo
    \/ "bad" \in {p.price.price.t, p.price.conf.t, p.price.expo.t}

\* C1: get_token_prices returns, without raising, a mapping whose key set is
\* exactly the set of the upper-cased requested symbols, whatever the upstream did.
C1_KeysAreRequestedSymbols ==
    pc = "prices_done" =>
        /\ ~priceOut.raised
        /\ DOMAIN priceOut.prices = {Upper(symbols[i]) : i \in 1..Len(symbols)}

\* C1 witness: a mixed request (lower-case known symbol, unknown symbol) answered
\* with a live quote for the known one and a mock quote for the unknown one.
C1_Witness ==
    /\ pc = "prices_done"
    /\ symbols = <<Lower(ETH), XYZ>>
    /\ upstream.first = "ok_list"
    /\ priceOut.prices[ETH].source = "pyth"
    /\ priceOut.prices[XYZ].source = "mock"

\* C2: degradation is per symbol: every symbol whose own payload is decodable
\* keeps its live quote, whatever the payloads of the other symbols are.
C2_PerSymbolDegradation ==
    (pc = "prices_done" /\ ValidDistinct) =>
        \A i \in 1..Len(Valid) :
            (i <= Len(LatestPrices) /\ Decodable(LatestPrices[i])) =>
                /\ priceOut.prices[Valid[i]].source = "pyth"
                /\ DecEq(priceOut.prices[Valid[i]].price,
                         Dec(LatestPrices[i].price.price.v, LatestPrices[i].price.expo.v))

\* C3: a symbol whose payload cannot be decoded gets its fixed mock quote, and
\* every quote tagged with the live source was decoded from a decodable payload.
C3_UndecodableGetsMock ==
    (pc = "prices_done" /\ ValidDistinct) =>
        /\ \A i \in 1..Len(Valid) :
              (i <= Len(LatestPrices) /\ Undecodable(LatestPrices[i])) =>
                  priceOut.prices[Valid[i]] = MockQuote(Valid[i], now)
        /\ \A k \in DOMAIN priceOut.prices :
              priceOut.prices[k].source = "pyth" =>
                  \E i \in 1..Len(Valid) :
                      Valid[i] = k /\ i <= Len(LatestPrices) /\ Decodable(LatestPrices[i])

\* C4: for a payload with integer price, conf and expo, the decoded price is
\* price * 10^expo and the decoded confidence is conf * 10^expo.
C4_SameScalingRule ==
    (pc = "decode_done" /\ Decodable(payload)) =>
        /\ DecEq(parsed.price, Dec(payload.price.price.v, payload.price.expo.v))
        /\ DecEq(parsed.confidence, Dec(payload.price.conf.v, payload.price.expo.v))

\* C4 witness: mantissas 3 and 2 with exponent -2 decoded to 0.03 and 0.02.
C4_Witness ==
    /\ pc = "decode_done"
    /\ payload.price = PriceInfo(IntField(3), IntField(2), IntField(-2))
    /\ parsed.price = Dec(3, -2)
    /\ parsed.confidence = Dec(2, -2)

(***************************************************************************)
(* Properties of the /portfolio/analyze valuation                          *)
(***************************************************************************)
InputTokens == get_user_portfolio(graph).tokens
TotalValue == DecParse(response.total_value_usd)
Priced(i) == response.tokens[i].price_source # "unavailable"
Answered == pc = "analyze_done" /\ response.status = 200

\* value and total of token i as integers at one common exponent.
ValueAt(i) ==
    Scaled(DecParse(response.tokens[i].value_usd),
           Min(DecParse(response.tokens[i].value_usd).e, TotalValue.e))
TotalAt(i) ==
    Scaled(TotalValue, Min(DecParse(response.tokens[i].value_usd).e, TotalValue.e))

\* a * d - 10000 * n, computed in two halves so that no product leaves the
\* range of 32-bit integers; 10^8 when it is out of any rounding's reach.
AllocOffset(a, n, d) ==
    LET lowProduct == a * (d % 10000)
        high == a * (d \div 10000) + lowProduct \div 10000 - n
    IN  IF Abs(high) > 10000 THEN 10000 * 10000 ELSE high * 10000 + (lowProduct % 10000)

\* allocation a (in hundredths of a percent) is a nearest two-decimal value of
\* n / d * 100, and whether n / d * 100 lies exactly between two of them.
IsNearest(a, n, d) == 2 * Abs(AllocOffset(a, n, d)) <= d
IsTie(a, n, d) == 2 * Abs(AllocOffset(a, n, d)) = d

AllocationOf(i) == DecParse(response.tokens[i].allocation_percentage)

\* C5 as stated: allocation_percentage is value / total * 100 rounded to two
\* decimals, a tie always going away from zero (round-half-up).
C5_RoundHalfUp ==
    (Answered /\ TotalValue.c > 0) =>
        \A i \in 1..Len(response.tokens) :
            /\ AllocationOf(i).e = -2
            /\ IsNearest(AllocationOf(i).c, ValueAt(i), TotalAt(i))
            /\ IsTie(AllocationOf(i).c, ValueAt(i), TotalAt(i)) =>
                  AllocOffset(AllocationOf(i).c, ValueAt(i), TotalAt(i)) > 0

\* C5 amended: every priced token has value_usd = balance * price, and
\* allocation_percentage is value / total * 100 rounded to two decimals, a tie
\* going to the neighbour whose last digit is even (round-half-even).
C5_RoundHalfEven ==
    (Answered /\ TotalValue.c > 0) =>
        \A i \in 1..Len(response.tokens) :
            /\ Priced(i) =>
                  DecEq(DecParse(response.tokens[i].value_usd),
                        DecMul(response.tokens[i].balance,
                               DecParse(response.tokens[i].current_price_usd)))
            /\ AllocationOf(i).e = -2
            /\ IsNearest(AllocationOf(i).c, ValueAt(i), TotalAt(i))
            /\ IsTie(AllocationOf(i).c, ValueAt(i), TotalAt(i)) =>
                  AllocationOf(i).c % 2 = 0

\* C5 witness: values 1.00 and 31.00; 1 / 32 * 100 = 3.125 is reported as 3.12.
C5_Witness ==
    /\ Answered
    /\ Len(response.tokens) = 2
    /\ DecParse(response.tokens[1].value_usd) = Dec(100, -2)
    /\ DecParse(response.tokens[2].value_usd) = Dec(3100, -2)
    /\ response.tokens[1].allocation_percentage = DecStr(Dec(312, -2))
    /\ response.tokens[2].allocation_percentage = DecStr(Dec(9688, -2))

\* C6: the request is answered without a division by zero, and when the total
\* is 0 every token's allocation_percentage is the text "0".
C6_ZeroTotalAllZero ==
    pc = "analyze_done" =>
        /\ response.status = 200
        /\ TotalValue.c = 0 =>
              \A i \in 1..Len(response.tokens) :
                  response.tokens[i].allocation_percentage = StrZero

\* C6 witness: a total of 0 made of an unpriced token and a priced token worth 0.
C6_Witness ==
    /\ Answered
    /\ TotalValue.c = 0
    /\ \E i, j \in 1..Len(response.tokens) :
          /\ ~Priced(i)
          /\ Priced(j)
          /\ response.tokens[j].allocation_percentage = StrZero

RECURSIVE SumAllocations(_)
SumAllocations(n) == IF n = 0 THEN 0 ELSE SumAllocations(n - 1) + AllocationOf(n).c

\* C7: with a positive total the allocations of n tokens sum to 100 within
\* 0.005 * n (in hundredths: twice the distance from 10000 is at most n).
C7_AllocationsSumTo100 ==
    (Answered /\ TotalValue.c > 0) =>
        2 * Abs(SumAllocations(Len(response.tokens)) - 10000) <= Len(response.tokens)

\* C7 witness: two tokens valued 60 and 40, reported as 60.00 and 40.00 percent.
C7_Witness ==
    /\ Answered
    /\ Len(response.tokens) = 2
    /\ DecEq(DecParse(response.tokens[1].value_usd), Dec(60, 0))
    /\ DecEq(DecParse(response.tokens[2].value_usd), Dec(40, 0))
    /\ SumAllocations(2) = 10000

RECURSIVE SumPricedValues(_)
SumPricedValues(n) ==
    IF n = 0 THEN Dec0
    ELSE IF Priced(n)
    THEN DecAdd(SumPricedValues(n - 1),
                DecMul(response.tokens[n].balance, DecParse(response.tokens[n].current_price_usd)))
    ELSE SumPricedValues(n - 1)

\* C8: the output lists the input tokens in order, none dropped; a token whose
\* symbol is no key of the price mapping has value "0", price "0" and source
\* "unavailable", and the total is the sum over the priced tokens alone.
C8_UnpricedTokenKept ==
    Answered =>
        /\ Len(response.tokens) = Len(InputTokens)
        /\ \A i \in 1..Len(InputTokens) :
              /\ response.tokens[i].symbol = InputTokens[i].symbol
              /\ response.tokens[i].balance = InputTokens[i].balance
              /\ InputTokens[i].symbol \notin DOMAIN response.price_data_sources =>
                    /\ response.tokens[i].value_usd = StrZero
                    /\ response.tokens[i].current_price_usd = StrZero
                    /\ response.tokens[i].price_source = "unavailable"
        /\ DecEq(TotalValue, SumPricedValues(Len(response.tokens)))

\* C8 witness: an unpriced token listed before a priced token of positive value.
C8_Witness ==
    /\ Answered
    /\ Len(response.tokens) = 2
    /\ response.tokens[1].price_source = "unavailable"
    /\ response.tokens[1].balance.c > 0
    /\ Priced(2)
    /\ TotalValue.c > 0

(***************************************************************************)
(* Properties of _generate_recommendation                                  *)
(***************************************************************************)
\* C9: the action is buy exactly when sentiment_score > 0.7 and
\* current_allocation < max_allocation of the tier; then confidence is
\* min(0.95, sentiment + 0.1) and the suggested amount min(5.0, max - current).
\* Sentiment 0.8, allocation 2 %, moderate: buy, 0.90, 5.0.
C9_BuyRule ==
    pc = "rec_done" =>
        /\ recOut.action = "buy" <=>
              (recIn.sentiment_score > 700 /\
               recIn.current_allocation < RiskParams(recIn.risk_tolerance).max_allocation)
        /\ recOut.action = "buy" =>
              /\ recOut.confidence = Min(950, recIn.sentiment_score + 100)
              /\ recOut.suggested_amount_percentage =
                    Min(5000, RiskParams(recIn.risk_tolerance).max_allocation
                              - recIn.current_allocation)
        /\ (recIn.sentiment_score = 800 /\ recIn.current_allocation = 2000
            /\ recIn.risk_tolerance = "moderate") =>
              /\ recOut.action = "buy"
              /\ recOut.confidence = 900
              /\ recOut.suggested_amount_percentage = 5000

\* C9 witness: the example of the claim.
C9_Witness ==
    /\ pc = "rec_done"
    /\ recIn.sentiment_score = 800
    /\ recIn.current_allocation = 2000
    /\ recIn.risk_tolerance = "moderate"
    /\ recOut.action = "buy"

\* C10: whenever sentiment_score < 0.4 or current_allocation > 1.5 * max_allocation
\* the action is sell, with confidence min(0.9, (1 - sentiment) + 0.2) and
\* suggested amount min(current * 0.3, 10.0). Sentiment 0.3, allocation 5 %,
\* moderate: sell.
C10_SellRule ==
    pc = "rec_done" =>
        /\ (recIn.sentiment_score < 400 \/
            2 * recIn.current_allocation > 3 * RiskParams(recIn.risk_tolerance).max_allocation) =>
              /\ recOut.action = "sell"
              /\ recOut.confidence = Min(900, (1000 - recIn.sentiment_score) + 200)
              /\ 10 * recOut.suggested_amount_percentage =
                    Min(3 * recIn.current_allocation, 100000)
        /\ (recIn.sentiment_score = 300 /\ recIn.current_allocation = 5000
            /\ recIn.risk_tolerance = "moderate") => recOut.action = "sell"

\* C10 witness: a sell by over-allocation alone, at a high sentiment.
C10_Witness ==
    /\ pc = "rec_done"
    /\ recIn.sentiment_score = 800
    /\ recIn.current_allocation = 16000
    /\ recIn.risk_tolerance = "moderate"
    /\ recOut.action = "sell"
    /\ recOut.confidence = 400

(***************************************************************************)
(* Properties of _generate_recommendation, continued                       *)
(***************************************************************************)
\* The buy and the sell condition, read off the arguments of the call.
BuyCondition ==
    /\ recIn.sentiment_score > 700
    /\ recIn.current_allocation < RiskParams(recIn.risk_tolerance).max_allocation
SellCondition ==
    \/ recIn.sentiment_score < 400
    \/ 2 * recIn.current_allocation > 3 * RiskParams(recIn.risk_tolerance).max_allocation

\* C11: the buy and the sell condition never hold together; the action is
\* buy exactly under the first, sell exactly under the second, and where
\* neither holds it is hold with confidence exactly 0.7 and suggested
\* percentage 0: every input yields exactly one of buy, sell, hold.
C11_ExactlyOneAction ==
    pc = "rec_done" =>
        /\ ~(BuyCondition /\ SellCondition)
        /\ recOut.action \in {"buy", "sell", "hold"}
        /\ recOut.action = "buy" <=> BuyCondition
        /\ recOut.action = "sell" <=> SellCondition
        /\ (~BuyCondition /\ ~SellCondition) =>
              /\ recOut.action = "hold"
              /\ recOut.confidence = 700 /\ recOut.confidence_excess = 0
              /\ recOut.suggested_amount_percentage = 0

\* A call at the buy threshold itself (sentiment 0.7, under-allocated) that held.
C11_Witness ==
    /\ pc = "rec_done"
    /\ recIn.sentiment_score = 700 /\ recIn.current_allocation = 0
    /\ recOut.action = "hold" /\ recOut.confidence = 700

\* The returned confidence compared with a threshold, float error included.
ConfidenceAbove(threshold) ==
    \/ recOut.confidence > threshold
    \/ recOut.confidence = threshold /\ recOut.confidence_excess > 0

\* C12: the risk level is a function of the returned confidence only: low
\* above 0.8, moderate above 0.6 and up to 0.8, high at 0.6 or below; so
\* every hold is moderate.
C12_RiskFromConfidence ==
    pc = "rec_done" =>
        /\ recOut.risk_assessment = "low" <=> ConfidenceAbove(800)
        /\ recOut.risk_assessment = "moderate" <=> (ConfidenceAbove(600) /\ ~ConfidenceAbove(800))
        /\ recOut.risk_assessment = "high" <=> ~ConfidenceAbove(600)
        /\ recOut.action = "hold" => recOut.risk_assessment = "moderate"

\* A sell caused only by over-allocation, at high sentiment, rated high.
C12_Witness ==
    /\ pc = "rec_done"
    /\ recIn.sentiment_score > 700
    /\ recOut.action = "sell" /\ recOut.risk_assessment = "high"

(***************************************************************************)
(* Properties of generate_insight                                          *)
(***************************************************************************)
\* portfolio_data lacks a field or holds a value_usd that is not a number.
PortfolioUnparsable ==
    \/ "tokens" \notin DOMAIN insIn.portfolio_data
    \/ \E i \in DOMAIN insIn.portfolio_data.tokens :
          LET token == insIn.portfolio_data.tokens[i]
          IN  "value_usd" \notin DOMAIN token \/ token.value_usd.kind = "bad"

\* market_data lacks the token, its price or its confidence, or holds one
\* that is not a number.
MarketUnparsable ==
    \/ Upper(insIn.token_symbol) \notin DOMAIN insIn.market_data
    \/ LET token_data == insIn.market_data[Upper(insIn.token_symbol)]
       IN  \/ "price" \notin DOMAIN token_data
           \/ "confidence" \notin DOMAIN token_data
           \/ token_data.price.kind = "bad"
           \/ token_data.confidence.kind = "bad"

\* C13: with no remote endpoint configured, a call whose portfolio_data or
\* market_data has a missing field or a non-numeric value returns the fixed
\* safe default: hold, confidence 0.5, suggested percentage 0.
C13_ParseFailureGivesFallback ==
    (pc = "insight_done" /\ ~insIn.endpoint /\ (PortfolioUnparsable \/ MarketUnparsable)) =>
        /\ insOut.action = "hold"
        /\ insOut.confidence = 500
        /\ insOut.suggested_amount_percentage = 0

\* C14: every recommendation generate_insight returns, on every path, has
\* an action among buy, sell, hold, a confidence within [0, 1] and a risk
\* level among low, moderate, high.
C14_RecommendationRanges ==
    pc = "insight_done" =>
        /\ insOut.action \in {"buy", "sell", "hold"}
        /\ insOut.confidence >= 0 /\ insOut.confidence <= 1000
        /\ insOut.risk_assessment \in {"low", "moderate", "high"}

(***************************************************************************)
(* Properties of the PolygonConnector operations                           *)
(***************************************************************************)
Returned(op) == pc = "chain_done" /\ chainIn.op = op

\* C15: with the Web3 handle absent or not connected, get_balance returns,
\* for any address string, a response tagged mock with currency MATIC and
\* balance_matic "1.0", and no error.
C15_MockBalanceWhenNotConnected ==
    (Returned("get_balance") /\ NotConnected(chainIn.w3)) =>
        /\ ~IsError(chainOut)
        /\ IsMock(chainOut)
        /\ chainOut.currency = "MATIC"
        /\ chainOut.balance_matic = DecStr(Dec(10, -1))
        /\ chainOut.address = chainIn.address

\* A call with a malformed address on a connector that is not connected.
C15_Witness ==
    /\ Returned("get_balance") /\ chainIn.w3 = "not_connected"
    /\ ~WellFormed(chainIn.address)
    /\ IsMock(chainOut)

\* The call reaches its RPC request: the check passed and the addresses
\* it takes are well formed.
RpcRequested ==
    /\ chainIn.w3 = "connected"
    /\ chainIn.op \in {"get_balance", "get_token_balance"} => WellFormed(chainIn.address)
    /\ chainIn.op = "get_token_balance" => WellFormed(chainIn.token_address)

\* The endpoint is unreachable: no handle, not connected, the connection
\* check raises, or the RPC request itself raises.
Unreachable ==
    \/ chainIn.w3 # "connected"
    \/ RpcRequested /\ chainIn.rpc = "raises"

\* C16: get_balance, get_token_balance, get_latest_block and
\* wait_for_transaction each return a mock-tagged value whenever the
\* endpoint is unreachable, and never an error object instead.
C16_MockOnEveryConnectivityFailure ==
    (pc = "chain_done" /\ Unreachable) => (IsMock(chainOut) /\ ~IsError(chainOut))

AddressMalformed == ~WellFormed(chainIn.token_address) \/ ~WellFormed(chainIn.address)

\* C17, as claimed: a malformed token or user address gives an error
\* object and never a balance, in every connection state.
C17_MalformedAlwaysError ==
    (Returned("get_token_balance") /\ AddressMalformed) =>
        (IsError(chainOut) /\ "balance" \notin DOMAIN chainOut)

\* C17, amended: a malformed token or user address gives an error object
\* and no balance when the connection check passes; when the handle is
\* absent or not connected the mock token balance is returned instead.
C17_MalformedErrorWhenConnected ==
    (Returned("get_token_balance") /\ AddressMalformed) =>
        /\ chainIn.w3 = "connected" => (IsError(chainOut) /\ "balance" \notin DOMAIN chainOut)
        /\ NotConnected(chainIn.w3) =>
              (~IsError(chainOut) /\ IsMock(chainOut) /\ "balance" \in DOMAIN chainOut)

\* A connected call with a good token address and a malformed user address.
C17_Witness ==
    /\ Returned("get_token_balance") /\ chainIn.w3 = "connected"
    /\ WellFormed(chainIn.token_address) /\ ~WellFormed(chainIn.address)
    /\ IsError(chainOut)

WaitCalled == chainIn.op = "wait_for_transaction"

\* C18: wait_for_transaction never waits longer than the caller's timeout,
\* can always go on until it has returned, and returns a receipt or an
\* error object; the timeout result comes only once the timeout has passed.
C18_WaitHonoursTimeout ==
    WaitCalled =>
        /\ elapsed <= chainIn.timeout
        /\ pc # "chain_done" => ENABLED NextChain
        /\ pc = "chain_done" =>
              /\ IsError(chainOut) \/ "status" \in DOMAIN chainOut
              /\ (IsError(chainOut) /\ chainOut.error = "TimeExhausted") =>
                    elapsed >= chainIn.timeout

(***************************************************************************)
(* Properties of the service                                               *)
(***************************************************************************)
\* Sub-check k of the last /test/all request raised.
SubCheckRaised(k) == ~handles[k] \/ svcIn.raises[k]

\* C19: whichever of the three sub-checks of /test/all raise, the response
\* is returned normally with exactly three sub-results, each tagged on its
\* own outcome, and successful_services counts the successes out of 3.
C19_IndependentSubResults ==
    pc = "test_all_done" =>
        /\ svcOut.status_code = 200
        /\ DOMAIN svcOut.results = ServiceNames
        /\ \A k \in ServiceNames :
              svcOut.results[k].status = IF SubCheckRaised(k) THEN "failed" ELSE "success"
        /\ svcOut.total_services = 3
        /\ svcOut.successful_services =
              Cardinality({k \in ServiceNames : svcOut.results[k].status = "success"})

\* The first sub-check raised and the two after it ran and succeeded.
C19_Witness ==
    /\ pc = "test_all_done"
    /\ SubCheckRaised("thegraph") /\ ~SubCheckRaised("pyth") /\ ~SubCheckRaised("polygon")
    /\ svcOut.results["thegraph"].status = "failed"
    /\ svcOut.results["pyth"].status = "success"
    /\ svcOut.results["polygon"].status = "success"
    /\ svcOut.successful_services = 2

\* C20: /health reports one flag per handle equal to whether it is set,
\* healthy exactly when all three are set; it reports degraded before
\* startup has run, and after a successful startup the handles stay set,
\* so that it reports healthy after any requests.
C20_HealthReflectsHandles ==
    /\ started = "ok" => \A k \in ServiceNames : handles[k]
    /\ started = "no" => \A k \in ServiceNames : ~handles[k]
    /\ pc = "health_done" =>
          /\ DOMAIN svcOut.services = ServiceNames
          /\ \A k \in ServiceNames : svcOut.services[k] = handles[k]
          /\ svcOut.status = "healthy" <=> \A k \in ServiceNames : handles[k]
          /\ svcOut.status \in {"healthy", "degraded"}
          /\ started = "no" => svcOut.status = "degraded"
          /\ started = "ok" => svcOut.status = "healthy"

\* A health check after a startup that set only some of the handles.
C20_Witness ==
    /\ pc = "health_done" /\ started = "failed"
    /\ handles["thegraph"] /\ ~handles["polygon"]
    /\ svcOut.status = "degraded"


(***************************************************************************)
(* C21..C23, C29: the analysis request and its outbound calls              *)
(***************************************************************************)
IndexingUnreachable == graph.kind = "real_failed"
PriceUnreachable ==
    \/ upstream.first = "exc"
    \/ upstream.first = "bad_status" /\ upstream.alt # "ok"
ChainUnreachable ==
    \/ chainIn.w3 # "connected"
    \/ chainIn.rpc = "raises"

\* C21: whichever of the indexing, price and chain upstreams are
\* unreachable, the analysis answers 200 and the part of the response that
\* comes from an unreachable upstream is its mock data.
C21_DegradesToMock ==
    pc = "pipe_done" =>
        /\ response.status = 200
        /\ IndexingUnreachable => frame.portfolio_data = MockPortfolio
        /\ PriceUnreachable =>
              \A k \in DOMAIN response.price_data_sources :
                  response.price_data_sources[k] = "mock"
        /\ ChainUnreachable =>
              /\ IsMock(response.network_info)
              /\ IsMock(response.native_balance)

\* The part of C21 about the status alone: no combination of unreachable
\* upstreams gives a 500.
C21_NeverServerError == pc = "pipe_done" => response.status = 200

\* C22: one call of get_token_prices sends at most one request to Hermes;
\* a failed request is followed by the mock fallback, not by another request.
C22_SingleAttempt == pc = "prices_done" => priceOut.requests <= 1

ServicesCalled == [i \in 1..Len(calls) |-> calls[i].service]
IndexedSymbols ==
    [i \in 1..Len(frame.portfolio_data.tokens) |-> frame.portfolio_data.tokens[i].symbol]

SentimentEntry ==
    IF Upper(insIn.token_symbol) \in DOMAIN insIn.market_data
    THEN insIn.market_data[Upper(insIn.token_symbol)] ELSE NoDict
EntryNonNegative ==
    \A f \in DOMAIN SentimentEntry :
        SentimentEntry[f].kind = "num" /\ SentimentEntry[f].v >= 0

\* C24: for a market entry with price >= 0 and confidence >= 0 the
\* sentiment score lies in [0, 1] (0..1000 thousandths), whatever the
\* technical and momentum draws and however wide the confidence interval.
C24_SentimentInUnitInterval ==
    (pc = "sentiment_done" /\ EntryNonNegative) =>
        (insOut.sentiment_score >= 0 /\ insOut.sentiment_score <= 1000)

(***************************************************************************)
(* C25: which feed a live quote comes from                                 *)
(***************************************************************************)
\* C25: a quote tagged "pyth" for symbol S is the decoding of the payload
\* that carries S's feed identifier, also when Hermes answers in another
\* order than asked or leaves a requested feed out.
C25_LiveQuoteFromOwnFeed ==
    pc = "prices_done" =>
        \A s \in DOMAIN priceOut.prices :
            priceOut.prices[s].source = "pyth" =>
                \E i \in 1..Len(upstream.body) :
                    /\ "id" \in DOMAIN upstream.body[i]
                    /\ upstream.body[i].id = price_feed_ids[s]
                    /\ priceOut.prices[s].price = _parse_price(upstream.body[i])

(***************************************************************************)
(* C26, C29: the response against the price mapping that was fetched       *)
(***************************************************************************)
\* C26: every token of the portfolio is enriched with the quote the price
\* call returned for its symbol, in whatever case the symbol is written;
\* "unavailable" is never produced.
C26_EveryTokenEnriched ==
    (pc = "pipe_done" /\ response.status = 200) =>
        \A i \in 1..Len(response.tokens) :
            LET key == Upper(response.tokens[i].symbol)
            IN  /\ key \in DOMAIN frame.prices
                /\ response.tokens[i].price_source = frame.prices[key].source
                /\ response.tokens[i].current_price_usd = DecStr(frame.prices[key].price)
                /\ response.tokens[i].price_source # "unavailable"

(***************************************************************************)
(* C27: the size of a suggested buy                                        *)
(***************************************************************************)
\* The allocation cap of the tier a risk_tolerance value selects, in
\* thousandths of a percent: 5, 10 and 20 percent, 10 for any other value.
TierMaxAllocation ==
    CASE recIn.risk_tolerance = "conservative" -> 5000
      [] recIn.risk_tolerance = "aggressive" -> 20000
      [] OTHER -> 10000

\* C27: a buy suggests more than 0 and at most 5 percent, and never takes
\* the allocation above the cap of the tier; an unknown risk_tolerance is
\* treated as moderate.
C27_BuyWithinTierCap ==
    (pc = "rec_done" /\ recOut.action = "buy") =>
        /\ recOut.suggested_amount_percentage > 0
        /\ recOut.suggested_amount_percentage <= 5000
        /\ recIn.current_allocation + recOut.suggested_amount_percentage <= TierMaxAllocation

\* C27 witness: a buy under an unknown tier that is cut down to reach 10 %.
C27_Witness ==
    /\ pc = "rec_done"
    /\ recIn.risk_tolerance = "reckless"
    /\ recIn.current_allocation = 9500
    /\ recOut.action = "buy"
    /\ recOut.suggested_amount_percentage = 500

(***************************************************************************)
(* C28: the token a recommendation is labelled with                        *)
(***************************************************************************)
\* C28: whichever path produced it (remote agent, remote response that
\* does not parse, local computation, fallback), the recommendation carries
\* token_symbol, and it is the token that was asked about.
C28_LabelledWithRequestedToken ==
    pc = "insight_done" =>
        /\ "token_symbol" \in DOMAIN insOut
        /\ insOut.token_symbol = insIn.token_symbol

RECURSIVE SumValueUsd(_)
SumValueUsd(n) ==
    IF n = 0 THEN Dec0
    ELSE DecAdd(SumValueUsd(n - 1), DecParse(response.tokens[n].value_usd))

PriceCallMade == \E i \in 1..Len(calls) : calls[i].service = "price"

\* C29: in a 200 response the total is the sum of the tokens' value_usd,
\* token_count is the number of tokens listed, and price_data_sources has
\* exactly the keys of the price mapping fetched for this request; with no
\* token in the portfolio it is empty and no price call was made.
C29_SummaryMatchesTokens ==
    (pc = "pipe_done" /\ response.status = 200) =>
        /\ DecEq(DecParse(response.total_value_usd), SumValueUsd(Len(response.tokens)))
        /\ response.token_count = Len(response.tokens)
        /\ DOMAIN response.price_data_sources = DOMAIN frame.prices
        /\ \A k \in DOMAIN frame.prices :
              response.price_data_sources[k] = frame.prices[k].source
        /\ frame.portfolio_data.tokens = <<>> =>
              /\ response.price_data_sources = <<>>
              /\ ~PriceCallMade
        /\ frame.portfolio_data.tokens # <<>> => PriceCallMade

\* C29 witness: two priced tokens of positive value, one live and one mock quote.
C29_Witness ==
    /\ pc = "pipe_done" /\ response.status = 200
    /\ response.token_count = 2
    /\ DecLt(Dec0, DecParse(response.tokens[1].value_usd))
    /\ DecLt(Dec0, DecParse(response.tokens[2].value_usd))
    /\ \E k \in DOMAIN response.price_data_sources : response.price_data_sources[k] = "mock"
    /\ \E k \in DOMAIN response.price_data_sources : response.price_data_sources[k] = "pyth"

(***************************************************************************)
(* C30: what get_token_prices asks Hermes for                              *)
(***************************************************************************)
HasFeed(s) == s \in DOMAIN price_feed_ids
RequestedKnown == SelectSeq([i \in 1..Len(symbols) |-> Upper(symbols[i])], HasFeed)

\* C30: with no known symbol requested there is no outbound request and
\* every quote is a mock; otherwise the request carries the feed
\* identifiers of the known symbols and no other; in both cases a symbol
\* without a feed gets the mock quote 1.00 +/- 0.01.
C30_RequestsKnownFeedsOnly ==
    pc = "prices_done" =>
        /\ RequestedKnown = <<>> =>
              /\ priceOut.requests = 0
              /\ priceOut.feed_ids = <<>>
              /\ \A k \in DOMAIN priceOut.prices : priceOut.prices[k].source = "mock"
        /\ RequestedKnown # <<>> =>
              /\ priceOut.requests >= 1
              /\ priceOut.feed_ids =
                    [i \in 1..Len(RequestedKnown) |-> price_feed_ids[RequestedKnown[i]]]
        /\ \A i \in 1..Len(symbols) :
              ~HasFeed(Upper(symbols[i])) =>
                  /\ Upper(symbols[i]) \in DOMAIN priceOut.prices
                  /\ priceOut.prices[Upper(symbols[i])] =
                        Quote(Dec(100, -2), Dec(1, -2), now, "mock")

\* C30 witness: an unknown symbol requested before a known one that Hermes
\* answers live.
C30_Witness ==
    /\ pc = "prices_done"
    /\ symbols = <<Lower(XYZ), ETH>>
    /\ priceOut.requests = 1
    /\ priceOut.feed_ids = <<price_feed_ids[ETH]>>
    /\ priceOut.prices[ETH].source = "pyth"
    /\ priceOut.prices[XYZ].source = "mock"

====
